---- MODULE Spec2Model ----
(***************************************************************************)
(* Staged ingestion pipeline of brief_qualite_eau_france:                  *)
(*   Fetcher     ingest_azure/01_ingest_zip.py, 01_ingest_data.py          *)
(*   Extractor   ingest_azure/02_ingest_data.py                            *)
(*   Tabularizer ingest_azure/03_build_parquet.py, 04_build_parquet.py     *)
(*                                                                         *)
(* Strings are sequences of tokens.  The tokens ".", "/" and "\\" are the  *)
(* characters the scripts treat specially; every other token stands for a  *)
(* run of ordinary characters.  String concatenation is \o.                *)
(***************************************************************************)
EXTENDS Integers, Sequences, FiniteSets, TLC

\* ------------------------------------------------------------------ bounds
\* number of distinct response bodies the HTTP server can serve
MaxBody == 2
\* largest configured value of CHUNK_ROWS
MaxChunkRows == 2
\* write_parquet_parts on its own: largest CHUNK_ROWS and largest table
MaxChunk == 3
MaxRows == 9
\* read_txt_to_df on its own: longest blob when decoding is looked at, and
\* when the delimiter is
MaxRaw == 4
MaxSample == 6

\* --------------------------------------------------------- string helpers
\* index of the last occurrence of token c in s, 0 when absent
RECURSIVE LastIndexOf(_, _)
LastIndexOf(s, c) ==
    IF s = <<>> THEN 0
    ELSE IF s[Len(s)] = c THEN Len(s)
    ELSE LastIndexOf(SubSeq(s, 1, Len(s) - 1), c)

\* os.path.basename / posixpath.basename: what follows the last "/"
basename(s) == SubSeq(s, LastIndexOf(s, "/") + 1, Len(s))

\* ================================================================ Fetcher
\* URLS of 01_ingest_zip.py and 01_ingest_data.py (the two lists are equal);
\* each URL is kept as urlparse() splits it.
ResourcePath(stamp, year) ==
    << "/", "resources", "/",
       "resultats-du-controle-sanitaire-de-leau-distribuee-commune-par-commune",
       "/", stamp, "/", "dis-", year, "-dept", ".", "zip" >>

URLS ==
    << [netloc |-> "static.data.gouv.fr", path |-> ResourcePath("20251001-103424", "2025")],
       [netloc |-> "static.data.gouv.fr", path |-> ResourcePath("20230811-065325", "2021")],
       [netloc |-> "static.data.gouv.fr", path |-> ResourcePath("20230707-102607", "2022")],
       [netloc |-> "static.data.gouv.fr", path |-> ResourcePath("20241014-073334", "2023")],
       [netloc |-> "static.data.gouv.fr", path |-> ResourcePath("20250329-074506", "2024")] >>

UrlIdx == 1..Len(URLS)

\* filename = os.path.basename(urlparse(url).path); blob_path = f"zip/{filename}"
blob_path(u) == <<"zip", "/">> \o basename(URLS[u].path)

FetchPaths == { blob_path(u) : u \in UrlIdx }

Bodies == 1..MaxBody
Absent == 0

FetchScripts == {"01_ingest_zip", "01_ingest_data"}

VARIABLES
    zipStore,    \* fetched archives: blob path -> body, Absent when no blob
    fScript,     \* the fetch script that is running or ran last, "none" at first
    fpc,         \* position of the fetch script: idle, probe, get, upload
    fi,          \* index in URLS of the URL being handled
    fBody,       \* body of the open HTTP response, Absent when none
    fReqs,       \* HTTP requests issued by the current run, per URL
    fUps,       \* upload_blob calls of the current run, per URL
    fWritten,    \* body stored by the current run, per URL, Absent when none
    fEnd,        \* how the last run ended: none, ok, error
    fFailed      \* URL whose HTTP request failed in the current run, 0 when none

fvars == << zipStore, fScript, fpc, fi, fBody, fReqs, fUps, fWritten, fEnd, fFailed >>

VARIABLES
    zips,             \* the archives under zip/: name and entries, in listing order
    blobs,            \* the objects under unzip/ and parquet_*/: path -> object
    run,              \* the script that is running or ran last, "none" at first
    pc,               \* its position, "idle" when no script is running
    runEnd,           \* how the last run ended: none, ok, exception, crash
    endedAt,          \* position at which an exception or a crash ended it, "" otherwise
    afterComplete,    \* the run before this one was an Extractor run that completed
    zi,               \* Extractor: index in zip_blobs of the archive being handled
    ei,               \* Extractor: index in zf.infolist() of the entry being handled
    extracted_count,  \* Extractor: extracted_count
    tmp,              \* Extractor: the temporary file tmp_path: none, exists, removed, kept
    downloads,        \* blobs downloaded by the current run
    uploads,          \* upload_blob calls of the current run, in order: path and entry
    startPaths,       \* paths of the objects stored when the current run started
    CHUNK_ROWS,       \* Tabularizer: the configured rows per part file
    year_dirs,        \* Tabularizer: year_dirs of main()
    yi,               \* Tabularizer: index in year_dirs of the directory being handled
    txt_paths,        \* Tabularizer: txt_paths of process_year
    pi,               \* Tabularizer: index in txt_paths of the file being read
    dfs,              \* Tabularizer: dfs of process_year
    full,             \* Tabularizer: the concatenated table
    ti                \* Tabularizer: the loop variable i of write_parquet_parts

xloc == << zi, ei, extracted_count, tmp >>
logs == << downloads, uploads, startPaths >>
tloc == << year_dirs, yi, txt_paths, pi, dfs, full, ti >>
ctl  == << run, pc, runEnd, endedAt, afterComplete >>

pvars == << zips, blobs, ctl, xloc, logs, CHUNK_ROWS, tloc >>

VARIABLES
    raw,     \* read_txt_to_df: the bytes of the blob, a sequence of 0..255
    rpc,     \* its position: idle, decode, sniff, parse, none (None returned)
    enc,     \* index in ENCODINGS of the encoding of the current loop turn
    text,    \* the decoded text, a sequence of code points
    head,    \* the sample handed to detect_sep
    sep      \* the delimiter detect_sep returned, a string

rvars == << raw, rpc, enc, text, head, sep >>

VARIABLES
    raceStage,   \* two runs at once: the script both processes run, "none" when
                 \* the runs are sequential
    proc         \* two runs at once: the local variables of each process

cvars == << raceStage, proc >>

vars == << fvars, pvars, rvars, cvars >>

\* the existence probe: get_blob_properties() answers, or raises
\* ResourceNotFoundError
BlobPresent(store, p) == store[p] # Absent

\* 01_ingest_zip.py lines 27-33: `continue` when the probe finds the blob
SkipsWhenPresentNever(script, present) == FALSE
SkipsWhenPresent(script, present) == script = "01_ingest_zip" /\ present

\* the script is launched
FetchStart ==
    /\ UNCHANGED << pvars, rvars, cvars >>
    /\ fpc = "idle"
    /\ \E s \in FetchScripts :
         /\ fScript' = s
         /\ fpc' = IF s = "01_ingest_zip" THEN "probe" ELSE "get"
    /\ fi' = 1
    /\ fBody' = Absent
    /\ fReqs' = [u \in UrlIdx |-> 0]
    /\ fUps' = [u \in UrlIdx |-> 0]
    /\ fWritten' = [u \in UrlIdx |-> Absent]
    /\ fEnd' = "none"
    /\ fFailed' = 0
    /\ UNCHANGED zipStore

\* end of the for loop: the script prints its last line and exits
FetchNextUrl(nextIdx) ==
    IF nextIdx > Len(URLS)
    THEN /\ fpc' = "idle"
         /\ fEnd' = "ok"
         /\ fi' = nextIdx
    ELSE /\ fpc' = IF fScript = "01_ingest_zip" THEN "probe" ELSE "get"
         /\ fEnd' = fEnd
         /\ fi' = nextIdx

\* 01_ingest_zip.py: blob.get_blob_properties() in try/except
FetchProbe ==
    /\ UNCHANGED << pvars, rvars, cvars >>
    /\ fpc = "probe"
    /\ IF SkipsWhenPresent(fScript, BlobPresent(zipStore, blob_path(fi)))
       THEN FetchNextUrl(fi + 1)
       ELSE /\ fpc' = "get"
            /\ UNCHANGED << fi, fEnd >>
    /\ UNCHANGED << zipStore, fScript, fBody, fReqs, fUps, fWritten, fFailed >>

\* any failure of the probe other than ResourceNotFoundError is not caught
FetchProbeError ==
    /\ UNCHANGED << pvars, rvars, cvars >>
    /\ fpc = "probe"
    /\ fpc' = "idle"
    /\ fEnd' = "error"
    /\ UNCHANGED << zipStore, fScript, fi, fBody, fReqs, fUps, fWritten, fFailed >>

\* the request of FetchGetAbort with the failure swallowed: the loop goes on
FetchGetContinue(ok, body) ==
    IF ok
    THEN /\ fBody' = body
         /\ fpc' = "upload"
         /\ UNCHANGED << fi, fEnd, fFailed >>
    ELSE /\ fBody' = Absent
         /\ fFailed' = fi
         /\ FetchNextUrl(fi + 1)

\* requests.get(url, stream=True, timeout=120) and r.raise_for_status()
FetchGetAbort(ok, body) ==
    IF ok
    THEN /\ fBody' = body
         /\ fpc' = "upload"
         /\ UNCHANGED << fi, fEnd, fFailed >>
    ELSE /\ fBody' = Absent
         /\ fpc' = "idle"
         /\ fEnd' = "error"
         /\ fFailed' = fi
         /\ UNCHANGED fi

FetchGet ==
    /\ UNCHANGED << pvars, rvars, cvars >>
    /\ fpc = "get"
    /\ fReqs' = [fReqs EXCEPT ![fi] = @ + 1]
    /\ \E ok \in BOOLEAN, body \in Bodies : FetchGetAbort(ok, body)
    /\ UNCHANGED << zipStore, fScript, fUps, fWritten >>

\* overwrite= argument of blob.upload_blob(r.raw, ...)
FetchOverwriteAlways(script) == TRUE
FetchOverwrite(script) == script = "01_ingest_data"

\* blob.upload_blob(r.raw, overwrite=...): with overwrite=False the call
\* raises ResourceExistsError when the blob exists
FetchUpload ==
    /\ UNCHANGED << pvars, rvars, cvars >>
    /\ fpc = "upload"
    /\ fUps' = [fUps EXCEPT ![fi] = @ + 1]
    /\ fBody' = Absent
    /\ IF BlobPresent(zipStore, blob_path(fi)) /\ ~FetchOverwrite(fScript)
       THEN /\ fpc' = "idle"
            /\ fEnd' = "error"
            /\ UNCHANGED << zipStore, fi, fWritten >>
       ELSE /\ zipStore' = [zipStore EXCEPT ![blob_path(fi)] = fBody]
            /\ fWritten' = [fWritten EXCEPT ![fi] = fBody]
            /\ FetchNextUrl(fi + 1)
    /\ UNCHANGED << fScript, fReqs, fFailed >>

\* the upload fails in transit: nothing is committed, the exception ends the run
FetchUploadError ==
    /\ UNCHANGED << pvars, rvars, cvars >>
    /\ fpc = "upload"
    /\ fUps' = [fUps EXCEPT ![fi] = @ + 1]
    /\ fBody' = Absent
    /\ fpc' = "idle"
    /\ fEnd' = "error"
    /\ UNCHANGED << zipStore, fScript, fi, fReqs, fWritten, fFailed >>

FetchInit ==
    /\ zipStore \in [FetchPaths -> {Absent} \cup Bodies]
    /\ fScript = "none"
    /\ fpc = "idle"
    /\ fi = 1
    /\ fBody = Absent
    /\ fReqs = [u \in UrlIdx |-> 0]
    /\ fUps = [u \in UrlIdx |-> 0]
    /\ fWritten = [u \in UrlIdx |-> Absent]
    /\ fEnd = "none"
    /\ fFailed = 0

FetchNext ==
    \/ FetchStart
    \/ FetchProbe
    \/ FetchProbeError
    \/ FetchGet
    \/ FetchUpload
    \/ FetchUploadError


\* ============================================================== Extractor
\* more string helpers
HasPrefix(s, pre) == Len(s) >= Len(pre) /\ SubSeq(s, 1, Len(pre)) = pre

\* str.lstrip(chars): drop every leading token that is one of chars
RECURSIVE lstrip(_, _)
lstrip(s, chars) ==
    IF s # <<>> /\ s[1] \in chars THEN lstrip(Tail(s), chars) ELSE s

\* str.replace(old, new) for one-token old and new
replace(s, old, new) == [k \in 1..Len(s) |-> IF s[k] = old THEN new ELSE s[k]]

\* os.path.splitext(name)[0]: the name without its last extension
splitext_root(s) ==
    IF LastIndexOf(s, ".") > LastIndexOf(s, "/") + 1
    THEN SubSeq(s, 1, LastIndexOf(s, ".") - 1)
    ELSE s

ZIP_PREFIX == <<"zip", "/">>
OUT_PREFIX == <<"unzip", "/">>

\* _marker_path(zip_basename)
marker_path(zip_basename) == OUT_PREFIX \o zip_basename \o <<"/", "_SUCCESS">>

\* zip_base and target_root of the loop body, from the blob name b.name
zip_base(name) == splitext_root(basename(name))
target_root(name) == OUT_PREFIX \o zip_base(name) \o <<"/">>

\* ZipInfo.is_dir(): the entry name ends with "/"
is_dir(info) == info.filename # <<>> /\ info.filename[Len(info.filename)] = "/"

\* internal = info.filename.lstrip("./\\").replace("\\", "/")
internal(info) == replace(lstrip(info.filename, {".", "/", "\\"}), "\\", "/")

\* dest_path = f"{target_root}{internal}"
dest_path(name, info) == target_root(name) \o internal(info)

\* ---------------------------------------------------------------- inputs
\* A text file is a sequence of lines, the first one the header; lines are
\* numbered so that rows can be told apart.  malformed marks a content that
\* pandas.read_csv rejects.
TextFile(lines, malformed) == [lines |-> lines, malformed |-> malformed]
NoData == TextFile(<<>>, FALSE)

Entry(filename, data) == [filename |-> filename, data |-> data]

ResultA == <<"DIS_RESULT", "_a", ".", "txt">>
ResultB == <<"DIS_RESULT", "_b", ".", "txt">>
ResultC == <<"DIS_RESULT", "_c", ".", "txt">>
PlvA    == <<"DIS_PLV", "_a", ".", "txt">>

\* a well-formed archive: one sampling-point file, two result files
EntriesPlain ==
    << Entry(ResultB, TextFile(<<30, 31, 32>>, FALSE)),
       Entry(PlvA, TextFile(<<10, 11, 12, 13>>, FALSE)),
       Entry(ResultA, TextFile(<<20, 21, 22, 23>>, FALSE)) >>

\* a directory entry, a Windows-style entry name, a file pandas rejects and
\* a file that holds only its header
EntriesFaulty ==
    << Entry(<<"sub", "/">>, NoData),
       Entry(<<".", "\\", "sub", "\\">> \o ResultB, TextFile(<<40, 41>>, TRUE)),
       Entry(ResultA, TextFile(<<50, 51, 52>>, FALSE)),
       Entry(ResultC, TextFile(<<60>>, FALSE)) >>

\* two entries whose names differ and whose normalised paths are equal
EntriesColliding ==
    << Entry(<<"lisezmoi", ".", "txt">>, TextFile(<<90>>, FALSE)),
       Entry(ResultA, TextFile(<<70, 71>>, FALSE)),
       Entry(<<".", "/">> \o ResultA, TextFile(<<80, 81, 82>>, FALSE)) >>

\* no data file at all
EntriesOther ==
    << Entry(<<"lisezmoi", ".", "txt">>, TextFile(<<90>>, FALSE)) >>

\* result files none of which gives a row: one that pandas rejects, one that
\* holds only its header
EntriesUnreadable ==
    << Entry(ResultA, TextFile(<<100, 101>>, TRUE)),
       Entry(ResultC, TextFile(<<110>>, FALSE)) >>

\* one short file of each kind
EntriesShort ==
    << Entry(PlvA, TextFile(<<120, 121>>, FALSE)),
       Entry(ResultB, TextFile(<<130, 131>>, FALSE)) >>

\* a result file in an archive whose name holds no four-digit year
EntriesStray ==
    << Entry(ResultA, TextFile(<<140, 141>>, FALSE)) >>

ZipName(year) == ZIP_PREFIX \o <<"dis-", year, "-dept", ".", "zip">>
Zip(year, entries) == [name |-> ZipName(year), entries |-> entries]

\* the listings of zip/ the model starts from, in listing (name) order
ZipInputs ==
    { << Zip("2023", EntriesPlain) >>,
      << Zip("2023", EntriesFaulty) >>,
      << Zip("2023", EntriesColliding), Zip("2024", EntriesOther) >>,
      << Zip("20", EntriesStray), Zip("2023", EntriesUnreadable), Zip("2024", EntriesShort) >> }

Paths == DOMAIN blobs

\* container_client.list_blobs(name_starts_with=prefix), as a set of names
list_blobs(store, prefix) == { q \in DOMAIN store : HasPrefix(q, prefix) }

\* _blob_exists(container, blob_path) when the probe itself does not fail
blob_exists(store, path) == path \in DOMAIN store

\* upload_blob(data, overwrite=True) and a successful upload_blob(data,
\* overwrite=False): the object at path is data
Put(store, path, obj) ==
    [q \in DOMAIN store \cup {path} |-> IF q = path THEN obj ELSE store[q]]

FileBlob(data) == [kind |-> "file", data |-> data]

\* how many times the marker at path has been uploaded, this upload included
MarkerWrites(store, path) ==
    IF path \in DOMAIN store /\ store[path].kind = "marker"
    THEN store[path].writes + 1
    ELSE 1

\* marker_body of the Extractor; the timestamp is left out
ExtractMarker(name, count, writes) ==
    [kind |-> "marker", zip |-> name, output_prefix |-> target_root(name),
     files_extracted |-> count, writes |-> writes]

Upload(path, what) == [path |-> path, what |-> what]

ResetLogs ==
    /\ downloads' = {}
    /\ uploads' = <<>>
    /\ startPaths' = IF run' = "extract" THEN list_blobs(blobs, OUT_PREFIX) ELSE {}

\* a script ends: normally, by an unhandled exception or by a crash
EndRun(how, where) ==
    /\ pc' = "idle"
    /\ runEnd' = how
    /\ endedAt' = where
    /\ UNCHANGED << run, afterComplete >>

Continue(next) ==
    /\ pc' = next
    /\ UNCHANGED << run, runEnd, endedAt, afterComplete >>


\* ------------------------------------------------------ Extractor: main()
\* the loop `for b in zip_blobs` moves to archive k, or main() returns
XNextArchive(k) ==
    /\ zi' = k
    /\ IF k > Len(zips) THEN EndRun("ok", "") ELSE Continue("x_marker")

\* the script is launched: zip_blobs = list(container.list_blobs("zip/"))
ExtractStart ==
    /\ UNCHANGED << fvars, rvars, cvars, CHUNK_ROWS, tloc >>
    /\ pc = "idle"
    /\ run' = "extract"
    /\ afterComplete' = (run = "extract" /\ runEnd = "ok")
    /\ endedAt' = ""
    /\ IF zips = <<>>
       THEN pc' = "idle" /\ runEnd' = "ok"
       ELSE pc' = "x_marker" /\ runEnd' = "none"
    /\ zi' = 1
    /\ ei' = 1
    /\ extracted_count' = 0
    /\ tmp' = "none"
    /\ ResetLogs
    /\ UNCHANGED << zips, blobs >>

\* 2) `if _blob_exists(container, marker): ... continue`
XSkipsArchiveNever(store, name) == FALSE
XSkipsArchiveOtherPath(store, name) == blob_exists(store, marker_path(basename(name)))
XSkipsArchive(store, name) == blob_exists(store, marker_path(zip_base(name)))

XCheckMarker ==
    /\ UNCHANGED << fvars, rvars, cvars, CHUNK_ROWS, tloc >>
    /\ run = "extract" /\ pc = "x_marker"
    /\ IF XSkipsArchive(blobs, zips[zi].name)
       THEN XNextArchive(zi + 1)
       ELSE Continue("x_download") /\ UNCHANGED zi
    /\ UNCHANGED << zips, blobs, ei, extracted_count, tmp, logs >>

\* 3) NamedTemporaryFile(delete=False), download_blob().readinto(tmp)
XDownload ==
    /\ UNCHANGED << fvars, rvars, cvars, CHUNK_ROWS, tloc >>
    /\ run = "extract" /\ pc = "x_download"
    /\ downloads' = downloads \cup {zips[zi].name}
    /\ tmp' = "exists"
    /\ extracted_count' = 0
    /\ ei' = 1
    /\ Continue("x_entry")
    /\ UNCHANGED << zips, blobs, zi, uploads, startPaths >>

\* 4) one turn of `for info in zf.infolist()` up to the upload: directories
\* and entries whose destination exists are passed over
XSkipsEntryWhenRootExists(store, name, info) ==
    is_dir(info) \/ list_blobs(store, target_root(name)) # {}
XSkipsEntry(store, name, info) ==
    is_dir(info) \/ blob_exists(store, dest_path(name, info))

\* XEntry, were an entry that is passed over counted as extracted
XEntryCountingSkipped ==
    /\ UNCHANGED << fvars, rvars, cvars, CHUNK_ROWS, tloc >>
    /\ run = "extract" /\ pc = "x_entry"
    /\ IF ei > Len(zips[zi].entries)
       THEN Continue("x_write_marker") /\ UNCHANGED << ei, extracted_count >>
       ELSE IF XSkipsEntry(blobs, zips[zi].name, zips[zi].entries[ei])
            THEN /\ Continue("x_entry") /\ ei' = ei + 1
                 /\ extracted_count' =
                        IF is_dir(zips[zi].entries[ei]) THEN extracted_count
                        ELSE extracted_count + 1
            ELSE Continue("x_upload") /\ UNCHANGED << ei, extracted_count >>
    /\ UNCHANGED << zips, blobs, zi, tmp, logs >>

XEntry ==
    /\ UNCHANGED << fvars, rvars, cvars, CHUNK_ROWS, tloc >>
    /\ run = "extract" /\ pc = "x_entry"
    /\ IF ei > Len(zips[zi].entries)
       THEN Continue("x_write_marker") /\ UNCHANGED ei
       ELSE IF XSkipsEntry(blobs, zips[zi].name, zips[zi].entries[ei])
            THEN Continue("x_entry") /\ ei' = ei + 1
            ELSE Continue("x_upload") /\ UNCHANGED ei
    /\ UNCHANGED << zips, blobs, zi, extracted_count, tmp, logs >>

\* dest_client.upload_blob(member_stream, overwrite=False, ...), then
\* extracted_count += 1; ResourceExistsError when the blob exists
XUpload ==
    /\ UNCHANGED << fvars, rvars, cvars, CHUNK_ROWS, tloc >>
    /\ run = "extract" /\ pc = "x_upload"
    /\ LET name == zips[zi].name
           info == zips[zi].entries[ei]
           dest == dest_path(name, info)
       IN  /\ uploads' = Append(uploads, Upload(dest, << zi, ei >>))
           /\ IF blob_exists(blobs, dest)
              THEN /\ EndRun("exception", "x_upload")
                   /\ UNCHANGED << blobs, ei, extracted_count >>
              ELSE /\ blobs' = Put(blobs, dest, FileBlob(info.data))
                   /\ extracted_count' = extracted_count + 1
                   /\ ei' = ei + 1
                   /\ Continue("x_entry")
    /\ UNCHANGED << zips, zi, tmp, downloads, startPaths >>

\* 5) the marker _SUCCESS, uploaded with overwrite=True
XWriteMarker ==
    /\ UNCHANGED << fvars, rvars, cvars, CHUNK_ROWS, tloc >>
    /\ run = "extract" /\ pc = "x_write_marker"
    /\ LET name == zips[zi].name
           marker == marker_path(zip_base(name))
       IN  /\ uploads' = Append(uploads, Upload(marker, << zi, 0 >>))
           /\ blobs' = Put(blobs, marker,
                         ExtractMarker(name, extracted_count, MarkerWrites(blobs, marker)))
    /\ Continue("x_cleanup")
    /\ UNCHANGED << zips, zi, ei, extracted_count, tmp, downloads, startPaths >>

\* `try: os.remove(tmp_path) except Exception: pass`, then the next archive
XCleanup ==
    /\ UNCHANGED << fvars, rvars, cvars, CHUNK_ROWS, tloc >>
    /\ run = "extract" /\ pc = "x_cleanup"
    /\ \E removed \in BOOLEAN : tmp' = IF removed THEN "removed" ELSE "kept"
    /\ XNextArchive(zi + 1)
    /\ UNCHANGED << zips, blobs, ei, extracted_count, logs >>

\* positions of the Extractor at which a storage or archive call can raise;
\* nothing in main() catches the exception
XRaisingPositions == {"x_marker", "x_download", "x_entry", "x_upload", "x_write_marker"}

\* XRaise, were _blob_exists to answer False on any failure of the probe
XRaiseProbeAsAbsent ==
    /\ UNCHANGED << fvars, rvars, cvars, CHUNK_ROWS, tloc >>
    /\ run = "extract" /\ pc \in XRaisingPositions
    /\ tmp' = IF pc = "x_download" THEN "exists" ELSE tmp
    /\ IF pc = "x_marker" THEN Continue("x_download")
       ELSE IF pc = "x_entry" /\ ei <= Len(zips[zi].entries) THEN Continue("x_upload")
       ELSE EndRun("exception", pc)
    /\ UNCHANGED << zips, blobs, zi, ei, extracted_count, logs >>

\* XRaise, were the marker upload placed in a `finally` block
XRaiseWritingMarker ==
    /\ UNCHANGED << fvars, rvars, cvars, CHUNK_ROWS, tloc >>
    /\ run = "extract" /\ pc \in XRaisingPositions
    /\ tmp' = IF pc = "x_download" THEN "exists" ELSE tmp
    /\ EndRun("exception", pc)
    /\ blobs' = Put(blobs, marker_path(zip_base(zips[zi].name)),
                    ExtractMarker(zips[zi].name, extracted_count,
                                  MarkerWrites(blobs, marker_path(zip_base(zips[zi].name)))))
    /\ UNCHANGED << zips, zi, ei, extracted_count, logs >>

\* the temporary file exists from NamedTemporaryFile() on, also when the
\* download into it fails
XRaise ==
    /\ UNCHANGED << fvars, rvars, cvars, CHUNK_ROWS, tloc >>
    /\ run = "extract" /\ pc \in XRaisingPositions
    /\ tmp' = IF pc = "x_download" THEN "exists" ELSE tmp
    /\ EndRun("exception", pc)
    /\ UNCHANGED << zips, blobs, zi, ei, extracted_count, logs >>

\* the process is killed at any point
Crash ==
    /\ UNCHANGED << fvars, rvars, cvars, CHUNK_ROWS, tloc >>
    /\ pc # "idle"
    /\ EndRun("crash", pc)
    /\ UNCHANGED << zips, blobs, xloc, logs >>

\* ============================================================ Tabularizer
\* The tokens in the order of the strings they stand for; sorted() and
\* list.sort() compare paths token by token in this order.
TokenOrder ==
    << "-dept", ".", "/", "00000", "00001", "00002", "00003", "00004", "00005", "20",
       "2023", "2024", "DIS_PLV", "DIS_RESULT", "\\", "_SUCCESS", "_a", "_b", "_c",
       "dis-", "dis-plv-", "lisezmoi", "parquet", "parquet_plv", "parquet_result",
       "part-", "sub", "txt", "unzip", "zip" >>

Rank(t) == CHOOSE k \in 1..Len(TokenOrder) : TokenOrder[k] = t

\* a < b for two strings
RECURSIVE StrLess(_, _)
StrLess(a, b) ==
    IF b = <<>> THEN FALSE
    ELSE IF a = <<>> THEN TRUE
    ELSE IF a[1] = b[1] THEN StrLess(Tail(a), Tail(b))
    ELSE Rank(a[1]) < Rank(b[1])

RECURSIVE SetToSeq(_)
SetToSeq(S) ==
    IF S = {} THEN <<>>
    ELSE LET x == CHOOSE x \in S : TRUE IN <<x>> \o SetToSeq(S \ {x})

\* sorted(set of strings)
sorted(S) == SortSeq(SetToSeq(S), StrLess)

\* str.split("/")
RECURSIVE split(_, _)
split(s, c) ==
    IF \A k \in 1..Len(s) : s[k] # c THEN << s >>
    ELSE LET k == CHOOSE k \in 1..Len(s) :
                      s[k] = c /\ \A j \in 1..(k - 1) : s[j] # c
         IN  << SubSeq(s, 1, k - 1) >> \o split(SubSeq(s, k + 1, Len(s)), c)

\* str.rstrip("/")
RECURSIVE rstrip(_, _)
rstrip(s, c) ==
    IF s # <<>> /\ s[Len(s)] = c THEN rstrip(SubSeq(s, 1, Len(s) - 1), c) ELSE s

UNZIP_ROOT   == <<"unzip">>
OUT_ROOT     == <<"parquet_result">>
PARQUET_ROOT == <<"parquet_plv">>

\* list_year_dirs(container_client)
list_year_dirs(store) ==
    sorted({ split(q, "/")[1] \o <<"/">> \o split(q, "/")[2] \o <<"/">> :
               q \in { q \in list_blobs(store, UNZIP_ROOT \o <<"/">>) :
                         LET parts == split(q, "/")
                         IN  /\ Len(parts) >= 2
                             /\ parts[1] = UNZIP_ROOT
                             /\ parts[2] # <<>>
                             /\ parts[2][1] = "dis-"
                             /\ parts[2][Len(parts[2])] = "-dept" } })

\* the strings \d{4} matches, among the tokens of the model
FourDigits == {"2023", "2024"}

\* YEAR_DIR_RE / YEAR_DIR_PATTERN = ^unzip/dis-(\d{4})-dept/?$ on
\* year_dir.rstrip("/"): the year, or "" when there is no match
year_of(year_dir) ==
    LET d == rstrip(year_dir, "/")
    IN  IF /\ Len(d) = 5
           /\ SubSeq(d, 1, 3) = <<"unzip", "/", "dis-">>
           /\ d[4] \in FourDigits
           /\ d[5] = "-dept"
        THEN d[4] ELSE ""

\* RESULT_FILE_RE = .*/DIS_RESULT.*\.txt$ and PLV_FILE_REGEX = .*/DIS_PLV.*\.txt$
\* (re.IGNORECASE does not matter for the tokens of the model)
file_re_match(word, name) ==
    /\ Len(name) >= 3
    /\ name[Len(name)] = "txt"
    /\ name[Len(name) - 1] = "."
    /\ \E k \in 1..(Len(name) - 3) : name[k] = "/" /\ name[k + 1] = word

TabScripts == {"03_build_parquet", "04_build_parquet"}
FileWord(script) == IF script = "04_build_parquet" THEN "DIS_RESULT" ELSE "DIS_PLV"

\* out_dir and success_marker of 04_build_parquet.process_year
out_dir(year) == OUT_ROOT \o <<"/", "dis-", year, "-dept", "/">>
success_marker(year) == out_dir(year) \o <<"_SUCCESS">>

\* out_blob of 03_build_parquet.process_year
out_blob(year) == PARQUET_ROOT \o <<"/", "dis-plv-", year, ".", "parquet">>

\* the object whose existence makes process_year return at once
done_path(script, year) ==
    IF script = "04_build_parquet" THEN success_marker(year) ELSE out_blob(year)

\* Optional[pd.DataFrame]: None, or the rows of a table
None == [none |-> TRUE, rows |-> <<>>]
DataFrame(rows) == [none |-> FALSE, rows |-> rows]

\* read_txt_to_df / read_txt_blob_to_df on the bytes of one blob: the data
\* rows that follow the header, or None when pandas.read_csv raises
\* (malformed content, or no line at all: EmptyDataError)
read_txt_to_df(data) ==
    IF data.malformed \/ data.lines = <<>>
    THEN None
    ELSE DataFrame([k \in 1..(Len(data.lines) - 1) |-> [line |-> data.lines[k + 1]]])

\* df["_source_blob"] = p; df["_year"] = year
tag(df, p, year) ==
    [k \in 1..Len(df) |-> [line |-> df[k].line, _source_blob |-> p, _year |-> year]]

\* pd.concat(dfs, ignore_index=True)
RECURSIVE concat(_)
concat(list) == IF list = <<>> THEN <<>> ELSE list[1] \o concat(Tail(list))

\* math.ceil(a / b) for a >= 0, b >= 1
ceil_div(a, b) == (a + b - 1) \div b

Max(a, b) == IF a >= b THEN a ELSE b
Min(a, b) == IF a <= b THEN a ELSE b

\* num_parts = max(1, ceil(total / CHUNK_ROWS))
num_parts(total, chunk_rows) == Max(1, ceil_div(total, chunk_rows))

\* df.iloc[a:b] for 0 <= a <= b
iloc(df, a, b) == SubSeq(df, Min(a, Len(df)) + 1, Min(b, Len(df)))

\* part = df.iloc[i*CHUNK_ROWS:(i+1)*CHUNK_ROWS]
part_rows_overlap(df, i, chunk_rows) == iloc(df, i * chunk_rows, (i + 1) * chunk_rows + 1)
part_rows(df, i, chunk_rows) == iloc(df, i * chunk_rows, (i + 1) * chunk_rows)

\* f"{i:05d}" for 0 <= i <= 99999
Digit == << "0", "1", "2", "3", "4", "5", "6", "7", "8", "9" >>
RECURSIVE decimal(_)
decimal(n) == IF n < 10 THEN Digit[n + 1] ELSE decimal(n \div 10) \o Digit[(n % 10) + 1]
format_05d(i) ==
    IF i < 10 THEN "0000" \o decimal(i)
    ELSE IF i < 100 THEN "000" \o decimal(i)
    ELSE IF i < 1000 THEN "00" \o decimal(i)
    ELSE IF i < 10000 THEN "0" \o decimal(i)
    ELSE decimal(i)

\* part_blob = f"{out_dir}part-{i:05d}.parquet"
part_blob(dir, i) == dir \o <<"part-", format_05d(i), ".", "parquet">>

ParquetBlob(rows) == [kind |-> "parquet", rows |-> rows]

\* body of the marker of 04_build_parquet
YearMarker(year, rows, writes) ==
    [kind |-> "marker", year |-> year, rows |-> rows, writes |-> writes]

\* ---------------------------------------------------- Tabularizer: main()
\* the loop `for yd in year_dirs` moves to directory k, or main() returns
TNextYear(k) ==
    /\ UNCHANGED year_dirs
    /\ yi' = k
    /\ txt_paths' = <<>>
    /\ pi' = 1
    /\ dfs' = <<>>
    /\ full' = <<>>
    /\ ti' = 0
    /\ IF k > Len(year_dirs) THEN EndRun("ok", "") ELSE Continue("t_year")

\* the script is launched: year_dirs = list_year_dirs(container)
TabStart ==
    /\ UNCHANGED << fvars, rvars, cvars, CHUNK_ROWS, xloc >>
    /\ pc = "idle"
    /\ \E script \in TabScripts : run' = script
    /\ afterComplete' = FALSE
    /\ endedAt' = ""
    /\ year_dirs' = list_year_dirs(blobs)
    /\ IF list_year_dirs(blobs) = <<>>
       THEN pc' = "idle" /\ runEnd' = "ok"
       ELSE pc' = "t_year" /\ runEnd' = "none"
    /\ yi' = 1
    /\ txt_paths' = <<>>
    /\ pi' = 1
    /\ dfs' = <<>>
    /\ full' = <<>>
    /\ ti' = 0
    /\ ResetLogs
    /\ UNCHANGED << zips, blobs >>

\* process_year up to the listing: `if not m: return` and
\* `if SKIP_IF_SUCCESS and blob_exists(...): return`
TSkipsYearNever(store, script, year_dir) == year_of(year_dir) = ""
TSkipsYear(store, script, year_dir) ==
    \/ year_of(year_dir) = ""
    \/ blob_exists(store, done_path(script, year_of(year_dir)))

TYear ==
    /\ UNCHANGED << fvars, rvars, cvars, CHUNK_ROWS, xloc >>
    /\ run \in TabScripts /\ pc = "t_year"
    /\ IF TSkipsYear(blobs, run, year_dirs[yi])
       THEN TNextYear(yi + 1)
       ELSE Continue("t_list") /\ UNCHANGED tloc
    /\ UNCHANGED << zips, blobs, logs >>

\* txt_paths: the blobs under year_dir whose name matches, sorted
TList ==
    /\ UNCHANGED << fvars, rvars, cvars, CHUNK_ROWS, xloc >>
    /\ run \in TabScripts /\ pc = "t_list"
    /\ LET found == sorted({ q \in list_blobs(blobs, year_dirs[yi]) :
                               file_re_match(FileWord(run), q) })
       IN  IF found = <<>>
           THEN TNextYear(yi + 1)
           ELSE /\ txt_paths' = found
                /\ pi' = 1
                /\ dfs' = <<>>
                /\ Continue("t_read")
                /\ UNCHANGED << year_dirs, yi, full, ti >>
    /\ UNCHANGED << zips, blobs, logs >>

\* `if df is not None and len(df) > 0`
keeps_df_any(df) == ~df.none
keeps_df(df) == ~df.none /\ Len(df.rows) > 0

\* dfs after one turn of `for p in txt_paths`, were a file that cannot be
\* read to discard the year
dfs_dropping_year(list, store, p, year) ==
    LET df == read_txt_to_df(store[p].data)
    IN  IF df.none THEN <<>>
        ELSE IF keeps_df(df) THEN Append(list, tag(df.rows, p, year)) ELSE list

\* dfs after one turn of `for p in txt_paths`
dfs_after(list, store, p, year) ==
    LET df == read_txt_to_df(store[p].data)
    IN  IF keeps_df(df) THEN Append(list, tag(df.rows, p, year)) ELSE list

\* one turn of `for p in txt_paths`; after the last one `if not dfs: return`
\* and full = pd.concat(dfs)
TRead ==
    /\ UNCHANGED << fvars, rvars, cvars, CHUNK_ROWS, xloc >>
    /\ run \in TabScripts /\ pc = "t_read"
    /\ LET p   == txt_paths[pi]
           now == dfs_after(dfs, blobs, p, year_of(year_dirs[yi]))
       IN  /\ downloads' = downloads \cup {p}
           /\ IF pi < Len(txt_paths)
              THEN /\ pi' = pi + 1
                   /\ dfs' = now
                   /\ Continue("t_read")
                   /\ UNCHANGED << year_dirs, yi, txt_paths, full, ti >>
              ELSE IF now = <<>>
                   THEN TNextYear(yi + 1)
                   ELSE /\ dfs' = now
                        /\ full' = concat(now)
                        /\ ti' = 0
                        /\ Continue(IF run = "04_build_parquet" THEN "t_part" ELSE "t_single")
                        /\ UNCHANGED << year_dirs, yi, txt_paths, pi >>
    /\ UNCHANGED << zips, blobs, uploads, startPaths >>

\* one turn of `for i in range(num_parts)` of write_parquet_parts
TPart ==
    /\ UNCHANGED << fvars, rvars, cvars, CHUNK_ROWS, xloc >>
    /\ run = "04_build_parquet" /\ pc = "t_part"
    /\ LET dir  == out_dir(year_of(year_dirs[yi]))
           part == part_rows(full, ti, CHUNK_ROWS)
       IN  IF part = <<>>
           THEN UNCHANGED << blobs, uploads >>
           ELSE /\ blobs' = Put(blobs, part_blob(dir, ti), ParquetBlob(part))
                /\ uploads' = Append(uploads, Upload(part_blob(dir, ti), << yi, ti >>))
    /\ ti' = ti + 1
    /\ Continue(IF ti + 1 < num_parts(Len(full), CHUNK_ROWS) THEN "t_part" ELSE "t_marker")
    /\ UNCHANGED << zips, downloads, startPaths, year_dirs, yi, txt_paths, pi, dfs, full >>

\* the marker _SUCCESS of the year, uploaded with overwrite=True
TWriteMarker ==
    /\ UNCHANGED << fvars, rvars, cvars, CHUNK_ROWS, xloc >>
    /\ run = "04_build_parquet" /\ pc = "t_marker"
    /\ LET year == year_of(year_dirs[yi])
       IN  /\ blobs' = Put(blobs, success_marker(year),
                         YearMarker(year, Len(full), MarkerWrites(blobs, success_marker(year))))
           /\ uploads' = Append(uploads, Upload(success_marker(year), << yi, -1 >>))
    /\ TNextYear(yi + 1)
    /\ UNCHANGED << zips, downloads, startPaths >>

\* 03_build_parquet: the single output object, uploaded with overwrite=True
TSingle ==
    /\ UNCHANGED << fvars, rvars, cvars, CHUNK_ROWS, xloc >>
    /\ run = "03_build_parquet" /\ pc = "t_single"
    /\ LET year == year_of(year_dirs[yi])
       IN  /\ blobs' = Put(blobs, out_blob(year), ParquetBlob(full))
           /\ uploads' = Append(uploads, Upload(out_blob(year), << yi, 0 >>))
    /\ TNextYear(yi + 1)
    /\ UNCHANGED << zips, downloads, startPaths >>

\* positions of the Tabularizer at which a storage call can raise outside
\* any try block (the probe, the listing, download_blob, upload_blob)
TRaisingPositions == {"t_year", "t_list", "t_read", "t_part", "t_marker", "t_single"}

\* process_year returns on `if not m` before it makes any storage call
TRaise ==
    /\ UNCHANGED << fvars, rvars, cvars, CHUNK_ROWS, xloc >>
    /\ run \in TabScripts /\ pc \in TRaisingPositions
    /\ ~(pc = "t_year" /\ year_of(year_dirs[yi]) = "")
    /\ EndRun("exception", pc)
    /\ UNCHANGED << zips, blobs, logs, tloc >>

\* ------------------------------------ read_txt_to_df, character by character
\* the encodings the loop `for enc in (...)` tries
ENCODINGS_latin1_first == << "latin-1", "utf-8", "utf-8-sig" >>
ENCODINGS == << "utf-8", "utf-8-sig", "latin-1" >>

\* a decoding that raised UnicodeDecodeError, and one that gave a text
DecodeError == [ok |-> FALSE, text |-> <<>>]
Decoded(cps) == [ok |-> TRUE, text |-> cps]

\* bytes.decode("utf-8"), errors="strict": the bytes allowed after the lead
\* byte b1 of a three-byte and of a four-byte sequence
utf8_second3(b1) == IF b1 = 224 THEN 160..191 ELSE IF b1 = 237 THEN 128..159 ELSE 128..191
utf8_second4(b1) == IF b1 = 240 THEN 144..191 ELSE IF b1 = 244 THEN 128..143 ELSE 128..191
utf8_cont(b) == b \in 128..191

\* length of the well-formed sequence s starts with, 0 when it starts with none
utf8_unit(s) ==
    IF s[1] <= 127 THEN 1
    ELSE IF s[1] \in 194..223
         THEN IF Len(s) >= 2 /\ utf8_cont(s[2]) THEN 2 ELSE 0
    ELSE IF s[1] \in 224..239
         THEN IF Len(s) >= 3 /\ s[2] \in utf8_second3(s[1]) /\ utf8_cont(s[3]) THEN 3 ELSE 0
    ELSE IF s[1] \in 240..244
         THEN IF /\ Len(s) >= 4 /\ s[2] \in utf8_second4(s[1])
                 /\ utf8_cont(s[3]) /\ utf8_cont(s[4]) THEN 4 ELSE 0
    ELSE 0

\* the code point of a well-formed sequence of n bytes at the start of s
utf8_code_point(s, n) ==
    IF n = 1 THEN s[1]
    ELSE IF n = 2 THEN (s[1] - 192) * 64 + (s[2] - 128)
    ELSE IF n = 3 THEN (s[1] - 224) * 4096 + (s[2] - 128) * 64 + (s[3] - 128)
    ELSE (s[1] - 240) * 262144 + (s[2] - 128) * 4096 + (s[3] - 128) * 64 + (s[4] - 128)

RECURSIVE utf8_decode(_)
utf8_decode(s) ==
    IF s = <<>> THEN Decoded(<<>>)
    ELSE LET n == utf8_unit(s)
         IN  IF n = 0 THEN DecodeError
             ELSE LET rest == utf8_decode(SubSeq(s, n + 1, Len(s)))
                  IN  IF rest.ok
                      THEN Decoded(<< utf8_code_point(s, n) >> \o rest.text)
                      ELSE DecodeError

\* codecs.BOM_UTF8
BOM_UTF8 == << 239, 187, 191 >>

\* bytes.decode("utf-8-sig"): a leading signature is dropped
utf8_sig_decode(s) ==
    IF HasPrefix(s, BOM_UTF8) THEN utf8_decode(SubSeq(s, 4, Len(s))) ELSE utf8_decode(s)

\* bytes.decode("latin-1"): byte b is the code point b
latin1_decode(s) == Decoded([k \in 1..Len(s) |-> s[k]])

\* raw.decode(encoding)
decode(s, encoding) ==
    IF encoding = "utf-8" THEN utf8_decode(s)
    ELSE IF encoding = "utf-8-sig" THEN utf8_sig_decode(s)
    ELSE latin1_decode(s)

\* the line boundaries of str.splitlines(): \n \r \v \f FS GS RS NEL LS PS
LineBreaks == {10, 13, 11, 12, 28, 29, 30, 133, 8232, 8233}

\* str.splitlines(): \r\n is one boundary, no empty last line
RECURSIVE splitlines(_)
splitlines(t) ==
    IF t = <<>> THEN <<>>
    ELSE IF \A k \in 1..Len(t) : t[k] \notin LineBreaks THEN << t >>
    ELSE LET k == CHOOSE k \in 1..Len(t) :
                      t[k] \in LineBreaks /\ \A j \in 1..(k - 1) : t[j] \notin LineBreaks
             skip == IF t[k] = 13 /\ k < Len(t) /\ t[k + 1] = 10 THEN 2 ELSE 1
         IN  << SubSeq(t, 1, k - 1) >> \o splitlines(SubSeq(t, k + skip, Len(t)))

\* "\n".join(lines)
RECURSIVE join(_)
join(lines) ==
    IF lines = <<>> THEN <<>>
    ELSE IF Len(lines) = 1 THEN lines[1]
    ELSE lines[1] \o << 10 >> \o join(Tail(lines))

\* head = "\n".join(text.splitlines()[:5])
first5(t) == join(SubSeq(splitlines(t), 1, Min(5, Len(splitlines(t)))))

\* FORCE_SEP = None of 04_build_parquet; "" when no delimiter is forced
FORCE_SEP == <<>>

\* candidates = [";", ",", "\t", "|"]
candidates == << <<59>>, <<44>>, <<9>>, <<124>> >>

\* sample.count(c) for a one-character c
count(sample, c) == Cardinality({ k \in 1..Len(sample) : sample[k] = c[1] })

\* max(counts, key=counts.get): the first key, in insertion order, whose
\* count is the largest
last_max(counts) ==
    CHOOSE i \in DOMAIN counts :
        /\ \A j \in DOMAIN counts : counts[j] <= counts[i]
        /\ \A j \in DOMAIN counts : j > i => counts[j] < counts[i]
first_max(counts) ==
    CHOOSE i \in DOMAIN counts :
        /\ \A j \in DOMAIN counts : counts[j] <= counts[i]
        /\ \A j \in DOMAIN counts : j < i => counts[j] < counts[i]

\* detect_sep(sample)
detect_sep(sample) ==
    IF FORCE_SEP # <<>> THEN FORCE_SEP
    ELSE LET counts == [i \in 1..Len(candidates) |-> count(sample, candidates[i])]
             best   == first_max(counts)
         IN  IF counts[best] > 0 THEN candidates[best] ELSE <<59>>

\* one turn of `for enc in ("utf-8", "utf-8-sig", "latin-1")`: `break` when
\* the decoding succeeds, the `else` branch returns None after the last turn
ReadDecode ==
    /\ UNCHANGED << fvars, pvars, cvars >>
    /\ rpc = "decode"
    /\ LET r == decode(raw, ENCODINGS[enc])
       IN  IF r.ok
           THEN text' = r.text /\ rpc' = "sniff" /\ UNCHANGED enc
           ELSE IF enc < Len(ENCODINGS)
                THEN enc' = enc + 1 /\ UNCHANGED << text, rpc >>
                ELSE rpc' = "none" /\ UNCHANGED << text, enc >>
    /\ UNCHANGED << raw, head, sep >>

\* head = "\n".join(text.splitlines()[:5]); sep = detect_sep(head)
ReadSniff ==
    /\ UNCHANGED << fvars, pvars, cvars >>
    /\ rpc = "sniff"
    /\ head' = first5(text)
    /\ sep' = detect_sep(first5(text))
    /\ rpc' = "parse"
    /\ UNCHANGED << raw, enc, text >>

ReadNext ==
    \/ ReadDecode
    \/ ReadSniff

\* no blob is being read
ReadAtRest ==
    /\ raw = <<>>
    /\ rpc = "idle"
    /\ enc = 1
    /\ text = <<>>
    /\ head = <<>>
    /\ sep = <<>>

\* no two runs at once
RaceAtRest ==
    /\ raceStage = "none"
    /\ proc = << >>

\* raw = downloader.readall() has returned s
ReadInit(s) ==
    /\ raw = s
    /\ rpc = "decode"
    /\ enc = 1
    /\ text = <<>>
    /\ head = <<>>
    /\ sep = <<>>

\* the sequences of at most n elements of S
SeqUpTo(S, n) == UNION { [1..k -> S] : k \in 0..n }

PipelineInit ==
    /\ zips \in ZipInputs
    /\ CHUNK_ROWS \in 1..MaxChunkRows
    /\ blobs = << >>
    /\ run = "none"
    /\ pc = "idle"
    /\ runEnd = "none"
    /\ endedAt = ""
    /\ afterComplete = FALSE
    /\ zi = 1
    /\ ei = 1
    /\ extracted_count = 0
    /\ tmp = "none"
    /\ downloads = {}
    /\ uploads = <<>>
    /\ startPaths = {}
    /\ year_dirs = <<>>
    /\ yi = 1
    /\ txt_paths = <<>>
    /\ pi = 1
    /\ dfs = <<>>
    /\ full = <<>>
    /\ ti = 0


\* the state of the Fetcher while the pipeline is checked, and the reverse
FetchAtRest ==
    /\ zipStore = [p \in FetchPaths |-> Absent]
    /\ fScript = "none"
    /\ fpc = "idle"
    /\ fi = 1
    /\ fBody = Absent
    /\ fReqs = [u \in UrlIdx |-> 0]
    /\ fUps = [u \in UrlIdx |-> 0]
    /\ fWritten = [u \in UrlIdx |-> Absent]
    /\ fEnd = "none"
    /\ fFailed = 0

PipelineAtRest ==
    /\ zips = <<>>
    /\ CHUNK_ROWS = 1
    /\ blobs = << >>
    /\ run = "none"
    /\ pc = "idle"
    /\ runEnd = "none"
    /\ endedAt = ""
    /\ afterComplete = FALSE
    /\ zi = 1
    /\ ei = 1
    /\ extracted_count = 0
    /\ tmp = "none"
    /\ downloads = {}
    /\ uploads = <<>>
    /\ startPaths = {}
    /\ year_dirs = <<>>
    /\ yi = 1
    /\ txt_paths = <<>>
    /\ pi = 1
    /\ dfs = <<>>
    /\ full = <<>>
    /\ ti = 0

PipelineNext ==
    \/ ExtractStart
    \/ XCheckMarker
    \/ XDownload
    \/ XEntry
    \/ XUpload
    \/ XWriteMarker
    \/ XCleanup
    \/ XRaise
    \/ TabStart
    \/ TYear
    \/ TList
    \/ TRead
    \/ TPart
    \/ TWriteMarker
    \/ TSingle
    \/ TRaise
    \/ Crash

InitFetch == FetchInit /\ PipelineAtRest /\ ReadAtRest /\ RaceAtRest

SpecFetch == InitFetch /\ [][FetchNext]_vars

InitPipeline == PipelineInit /\ FetchAtRest /\ ReadAtRest /\ RaceAtRest

SpecPipeline == InitPipeline /\ [][PipelineNext]_vars

\* ------------------------------------------- write_parquet_parts on its own
\* a table of n tagged rows
Table(n) ==
    [k \in 1..n |-> [line |-> k,
                     _source_blob |-> OUT_PREFIX \o <<"dis-", "2023", "-dept", "/">> \o ResultA,
                     _year |-> "2023"]]

\* process_year has built `full` and calls write_parquet_parts(container,
\* out_dir, full): any table of 1..MaxRows rows, any CHUNK_ROWS in 1..MaxChunk
InitChunk ==
    /\ FetchAtRest
    /\ ReadAtRest
    /\ RaceAtRest
    /\ zips = <<>>
    /\ blobs = << >>
    /\ CHUNK_ROWS \in 1..MaxChunk
    /\ run = "04_build_parquet"
    /\ pc = "t_part"
    /\ runEnd = "none"
    /\ endedAt = ""
    /\ afterComplete = FALSE
    /\ zi = 1
    /\ ei = 1
    /\ extracted_count = 0
    /\ tmp = "none"
    /\ downloads = {}
    /\ uploads = <<>>
    /\ startPaths = {}
    /\ year_dirs = << OUT_PREFIX \o <<"dis-", "2023", "-dept", "/">> >>
    /\ yi = 1
    /\ txt_paths = <<>>
    /\ pi = 1
    /\ dfs = <<>>
    /\ \E n \in 1..MaxRows : full = Table(n)
    /\ ti = 0

SpecChunk == InitChunk /\ [][TPart]_vars

\* ------------------------------------------------ read_txt_to_df on its own
\* bytes that make well-formed and ill-formed UTF-8: ";", "A", the lead bytes
\* C3, ED, EF, the continuation bytes A0, A9, BB, BF, and E9, FF
DecodeBytes == {59, 65, 195, 237, 239, 160, 169, 187, 191, 233, 255}

InitDecode ==
    /\ FetchAtRest
    /\ PipelineAtRest
    /\ RaceAtRest
    /\ \E s \in SeqUpTo(DecodeBytes, MaxRaw) : ReadInit(s)

SpecDecode == InitDecode /\ [][ReadNext]_vars

\* the four candidate delimiters, a letter and the line feed
SniffBytes == {59, 44, 9, 124, 97, 10}

InitSniff ==
    /\ FetchAtRest
    /\ PipelineAtRest
    /\ RaceAtRest
    /\ \E s \in SeqUpTo(SniffBytes, MaxSample) : ReadInit(s)

SpecSniff == InitSniff /\ [][ReadNext]_vars


\* ========================================================= two runs at once
\* Two processes run the same script on the same container.  Each storage
\* call is one step; the steps of the two processes interleave freely.  A
\* storage call fails only as the service prescribes (ResourceExistsError).
Procs == {1, 2}

RaceStages == {"01_ingest_zip", "01_ingest_data", "02_ingest_data", "04_build_parquet"}

\* everything but the shared stores
fRest == << fScript, fpc, fi, fBody, fReqs, fUps, fWritten, fEnd, fFailed >>
pRest == << zips, ctl, xloc, logs, CHUNK_ROWS, tloc >>

\* the local variables of a process that has not started; passed holds the
\* paths whose existence check let the process go on, tried the upload_blob
\* calls it made and whether they succeeded
Local ==
    [pc |-> "start", i |-> 1, e |-> 1, count |-> 0, body |-> Absent,
     dirs |-> <<>>, paths |-> <<>>, k |-> 1, dfs |-> <<>>, full |-> <<>>, part |-> 0,
     passed |-> {}, tried |-> {}]

Tried(path, ok) == [path |-> path, ok |-> ok]

\* the store after 02_ingest_data.py has run to its end on the archives zs
ExtractedStore(zs) ==
    LET files == { << a, k >> \in (1..Len(zs)) \X (1..4) :
                     k <= Len(zs[a].entries) /\ ~is_dir(zs[a].entries[k]) }
        dest(f) == dest_path(zs[f[1]].name, zs[f[1]].entries[f[2]])
        first(q) == CHOOSE f \in files :
                        /\ dest(f) = q
                        /\ \A g \in files : (dest(g) = q /\ g[1] = f[1]) => g[2] >= f[2]
        uploaded(a) == { dest(f) : f \in { f \in files : f[1] = a } }
        markers == { marker_path(zip_base(zs[a].name)) : a \in 1..Len(zs) }
        archive(m) == CHOOSE a \in 1..Len(zs) : marker_path(zip_base(zs[a].name)) = m
    IN  [q \in { dest(f) : f \in files } \cup markers |->
            IF q \in markers
            THEN ExtractMarker(zs[archive(q)].name, Cardinality(uploaded(archive(q))), 1)
            ELSE FileBlob(zs[first(q)[1]].entries[first(q)[2]].data)]

\* the listing of zip/ the two runs find
RaceZips == << Zip("2023", EntriesShort) >>

\* the process is launched: zip_blobs and year_dirs are listed
RaceStart ==
    /\ UNCHANGED << fRest, pRest, rvars, raceStage, zipStore, blobs >>
    /\ \E p \in Procs :
         /\ proc[p].pc = "start"
         /\ proc' = [proc EXCEPT ![p] =
               IF raceStage = "01_ingest_zip" THEN [@ EXCEPT !.pc = "probe"]
               ELSE IF raceStage = "01_ingest_data" THEN [@ EXCEPT !.pc = "get"]
               ELSE IF raceStage = "02_ingest_data"
                    THEN [@ EXCEPT !.pc = IF zips = <<>> THEN "done" ELSE "x_marker"]
               ELSE [@ EXCEPT !.dirs = list_year_dirs(blobs),
                              !.pc = IF list_year_dirs(blobs) = <<>> THEN "done" ELSE "t_year"]]

\* ------------------------------------ 01_ingest_zip.py, 01_ingest_data.py
\* the loop `for url in URLS` takes the next URL, or the script ends
RaceNextUrl(l) ==
    [l EXCEPT !.i = l.i + 1, !.body = Absent,
              !.pc = IF l.i + 1 > Len(URLS) THEN "done"
                     ELSE IF raceStage = "01_ingest_zip" THEN "probe" ELSE "get"]

\* blob.get_blob_properties() in try/except
RaceProbe ==
    /\ UNCHANGED << fRest, pRest, rvars, raceStage, zipStore, blobs >>
    /\ \E p \in Procs :
         LET l == proc[p] IN
         /\ raceStage = "01_ingest_zip" /\ l.pc = "probe"
         /\ proc' = [proc EXCEPT ![p] =
               IF SkipsWhenPresent(raceStage, BlobPresent(zipStore, blob_path(l.i)))
               THEN RaceNextUrl(l)
               ELSE [l EXCEPT !.pc = "get", !.passed = @ \cup {blob_path(l.i)}]]

\* requests.get(...) and r.raise_for_status()
RaceGet ==
    /\ UNCHANGED << fRest, pRest, rvars, raceStage, zipStore, blobs >>
    /\ \E p \in Procs, ok \in BOOLEAN, body \in Bodies :
         LET l == proc[p] IN
         /\ raceStage \in FetchScripts /\ l.pc = "get"
         /\ proc' = [proc EXCEPT ![p] =
               IF ok THEN [l EXCEPT !.pc = "upload", !.body = body]
               ELSE [l EXCEPT !.pc = "error"]]

\* blob.upload_blob(r.raw, overwrite=False), overwrite=True in 01_ingest_data.py
RaceUpload ==
    /\ UNCHANGED << fRest, pRest, rvars, raceStage, blobs >>
    /\ \E p \in Procs :
         LET l == proc[p]
             dest == blob_path(l.i)
         IN
         /\ raceStage \in FetchScripts /\ l.pc = "upload"
         /\ IF BlobPresent(zipStore, dest) /\ ~FetchOverwrite(raceStage)
            THEN /\ proc' = [proc EXCEPT ![p] =
                        [l EXCEPT !.pc = "error", !.tried = @ \cup {Tried(dest, FALSE)}]]
                 /\ UNCHANGED zipStore
            ELSE /\ zipStore' = [zipStore EXCEPT ![dest] = l.body]
                 /\ proc' = [proc EXCEPT ![p] =
                        RaceNextUrl([l EXCEPT !.tried = @ \cup {Tried(dest, TRUE)}])]

\* ------------------------------------------------------ 02_ingest_data.py
\* the loop `for b in zip_blobs` takes the next archive, or main() returns
RaceNextArchive(l) ==
    [l EXCEPT !.i = l.i + 1, !.e = 1, !.count = 0,
              !.pc = IF l.i + 1 > Len(zips) THEN "done" ELSE "x_marker"]

\* `if _blob_exists(container, marker): continue`, then the download of the
\* archive into the temporary file, which reads zip/ and writes nothing
RaceCheckMarker ==
    /\ UNCHANGED << fRest, pRest, rvars, raceStage, zipStore, blobs >>
    /\ \E p \in Procs :
         LET l == proc[p]
             name == zips[l.i].name
         IN
         /\ raceStage = "02_ingest_data" /\ l.pc = "x_marker"
         /\ proc' = [proc EXCEPT ![p] =
               IF XSkipsArchive(blobs, name)
               THEN RaceNextArchive(l)
               ELSE [l EXCEPT !.pc = "x_entry", !.e = 1, !.count = 0,
                              !.passed = @ \cup {marker_path(zip_base(name))}]]

\* one turn of `for info in zf.infolist()` up to the upload
RaceEntry ==
    /\ UNCHANGED << fRest, pRest, rvars, raceStage, zipStore, blobs >>
    /\ \E p \in Procs :
         LET l == proc[p] IN
         /\ raceStage = "02_ingest_data" /\ l.pc = "x_entry"
         /\ proc' = [proc EXCEPT ![p] =
               IF l.e > Len(zips[l.i].entries) THEN [l EXCEPT !.pc = "x_write_marker"]
               ELSE IF XSkipsEntry(blobs, zips[l.i].name, zips[l.i].entries[l.e])
                    THEN [l EXCEPT !.e = l.e + 1]
                    ELSE [l EXCEPT !.pc = "x_upload"]]

\* dest_client.upload_blob(member_stream, overwrite=False, ...)
RaceUploadEntry ==
    /\ UNCHANGED << fRest, pRest, rvars, raceStage, zipStore >>
    /\ \E p \in Procs :
         LET l == proc[p]
             info == zips[l.i].entries[l.e]
             dest == dest_path(zips[l.i].name, info)
         IN
         /\ raceStage = "02_ingest_data" /\ l.pc = "x_upload"
         /\ IF blob_exists(blobs, dest)
            THEN /\ proc' = [proc EXCEPT ![p] =
                        [l EXCEPT !.pc = "error", !.tried = @ \cup {Tried(dest, FALSE)}]]
                 /\ UNCHANGED blobs
            ELSE /\ blobs' = Put(blobs, dest, FileBlob(info.data))
                 /\ proc' = [proc EXCEPT ![p] =
                        [l EXCEPT !.pc = "x_entry", !.e = l.e + 1, !.count = l.count + 1,
                                  !.tried = @ \cup {Tried(dest, TRUE)}]]

\* RaceWriteMarker, were the marker uploaded only when it does not exist yet
RaceWriteMarkerIfAbsent ==
    /\ UNCHANGED << fRest, pRest, rvars, raceStage, zipStore >>
    /\ \E p \in Procs :
         LET l == proc[p]
             name == zips[l.i].name
             marker == marker_path(zip_base(name))
         IN
         /\ raceStage = "02_ingest_data" /\ l.pc = "x_write_marker"
         /\ IF blob_exists(blobs, marker)
            THEN /\ UNCHANGED blobs
                 /\ proc' = [proc EXCEPT ![p] = RaceNextArchive(l)]
            ELSE /\ blobs' = Put(blobs, marker,
                                 ExtractMarker(name, l.count, MarkerWrites(blobs, marker)))
                 /\ proc' = [proc EXCEPT ![p] =
                        RaceNextArchive([l EXCEPT !.tried = @ \cup {Tried(marker, TRUE)}])]

\* the marker, uploaded with overwrite=True; os.remove(tmp_path) follows
RaceWriteMarker ==
    /\ UNCHANGED << fRest, pRest, rvars, raceStage, zipStore >>
    /\ \E p \in Procs :
         LET l == proc[p]
             name == zips[l.i].name
             marker == marker_path(zip_base(name))
         IN
         /\ raceStage = "02_ingest_data" /\ l.pc = "x_write_marker"
         /\ blobs' = Put(blobs, marker,
                         ExtractMarker(name, l.count, MarkerWrites(blobs, marker)))
         /\ proc' = [proc EXCEPT ![p] =
                RaceNextArchive([l EXCEPT !.tried = @ \cup {Tried(marker, TRUE)}])]

\* ---------------------------------------------------- 04_build_parquet.py
\* the loop `for yd in year_dirs` takes the next directory, or main() returns
RaceNextYear(l) ==
    [l EXCEPT !.i = l.i + 1, !.paths = <<>>, !.k = 1, !.dfs = <<>>, !.full = <<>>,
              !.part = 0,
              !.pc = IF l.i + 1 > Len(l.dirs) THEN "done" ELSE "t_year"]

\* process_year up to the listing
RaceYear ==
    /\ UNCHANGED << fRest, pRest, rvars, raceStage, zipStore, blobs >>
    /\ \E p \in Procs :
         LET l == proc[p] IN
         /\ raceStage = "04_build_parquet" /\ l.pc = "t_year"
         /\ proc' = [proc EXCEPT ![p] =
               IF TSkipsYear(blobs, raceStage, l.dirs[l.i])
               THEN RaceNextYear(l)
               ELSE [l EXCEPT !.pc = "t_list",
                              !.passed = @ \cup {success_marker(year_of(l.dirs[l.i]))}]]

\* txt_paths
RaceList ==
    /\ UNCHANGED << fRest, pRest, rvars, raceStage, zipStore, blobs >>
    /\ \E p \in Procs :
         LET l == proc[p]
             found == sorted({ q \in list_blobs(blobs, l.dirs[l.i]) :
                                 file_re_match(FileWord(raceStage), q) })
         IN
         /\ raceStage = "04_build_parquet" /\ l.pc = "t_list"
         /\ proc' = [proc EXCEPT ![p] =
               IF found = <<>> THEN RaceNextYear(l)
               ELSE [l EXCEPT !.paths = found, !.k = 1, !.dfs = <<>>, !.pc = "t_read"]]

\* one turn of `for p in txt_paths`
RaceRead ==
    /\ UNCHANGED << fRest, pRest, rvars, raceStage, zipStore, blobs >>
    /\ \E p \in Procs :
         LET l == proc[p]
             now == dfs_after(l.dfs, blobs, l.paths[l.k], year_of(l.dirs[l.i]))
         IN
         /\ raceStage = "04_build_parquet" /\ l.pc = "t_read"
         /\ proc' = [proc EXCEPT ![p] =
               IF l.k < Len(l.paths) THEN [l EXCEPT !.k = l.k + 1, !.dfs = now]
               ELSE IF now = <<>> THEN RaceNextYear(l)
               ELSE [l EXCEPT !.dfs = now, !.full = concat(now), !.part = 0, !.pc = "t_part"]]

\* one turn of `for i in range(num_parts)`
RacePart ==
    /\ UNCHANGED << fRest, pRest, rvars, raceStage, zipStore >>
    /\ \E p \in Procs :
         LET l == proc[p]
             dest == part_blob(out_dir(year_of(l.dirs[l.i])), l.part)
             part == part_rows(l.full, l.part, CHUNK_ROWS)
             next == IF l.part + 1 < num_parts(Len(l.full), CHUNK_ROWS)
                     THEN "t_part" ELSE "t_marker"
         IN
         /\ raceStage = "04_build_parquet" /\ l.pc = "t_part"
         /\ IF part = <<>>
            THEN /\ UNCHANGED blobs
                 /\ proc' = [proc EXCEPT ![p] = [l EXCEPT !.part = l.part + 1, !.pc = next]]
            ELSE /\ blobs' = Put(blobs, dest, ParquetBlob(part))
                 /\ proc' = [proc EXCEPT ![p] =
                        [l EXCEPT !.part = l.part + 1, !.pc = next,
                                  !.tried = @ \cup {Tried(dest, TRUE)}]]

\* the marker of the year, uploaded with overwrite=True
RaceYearMarker ==
    /\ UNCHANGED << fRest, pRest, rvars, raceStage, zipStore >>
    /\ \E p \in Procs :
         LET l == proc[p]
             year == year_of(l.dirs[l.i])
             marker == success_marker(year)
         IN
         /\ raceStage = "04_build_parquet" /\ l.pc = "t_marker"
         /\ blobs' = Put(blobs, marker,
                         YearMarker(year, Len(l.full), MarkerWrites(blobs, marker)))
         /\ proc' = [proc EXCEPT ![p] =
                RaceNextYear([l EXCEPT !.tried = @ \cup {Tried(marker, TRUE)}])]

RaceNext ==
    \/ RaceStart
    \/ RaceProbe
    \/ RaceGet
    \/ RaceUpload
    \/ RaceCheckMarker
    \/ RaceEntry
    \/ RaceUploadEntry
    \/ RaceWriteMarker
    \/ RaceYear
    \/ RaceList
    \/ RaceRead
    \/ RacePart
    \/ RaceYearMarker

\* two runs of one script are about to start: the Fetcher on an empty zip/,
\* the Extractor on fetched archives, the Tabularizer on extracted ones
InitRace ==
    /\ ReadAtRest
    /\ raceStage \in RaceStages
    /\ proc = [p \in Procs |-> Local]
    /\ zipStore = [q \in FetchPaths |-> Absent]
    /\ fScript = "none"
    /\ fpc = "idle"
    /\ fi = 1
    /\ fBody = Absent
    /\ fReqs = [u \in UrlIdx |-> 0]
    /\ fUps = [u \in UrlIdx |-> 0]
    /\ fWritten = [u \in UrlIdx |-> Absent]
    /\ fEnd = "none"
    /\ fFailed = 0
    /\ zips = IF raceStage \in FetchScripts THEN <<>> ELSE RaceZips
    /\ blobs = IF raceStage = "04_build_parquet" THEN ExtractedStore(RaceZips) ELSE << >>
    /\ CHUNK_ROWS \in IF raceStage = "04_build_parquet" THEN 1..MaxChunkRows ELSE {1}
    /\ run = "none"
    /\ pc = "idle"
    /\ runEnd = "none"
    /\ endedAt = ""
    /\ afterComplete = FALSE
    /\ zi = 1
    /\ ei = 1
    /\ extracted_count = 0
    /\ tmp = "none"
    /\ downloads = {}
    /\ uploads = <<>>
    /\ startPaths = {}
    /\ year_dirs = <<>>
    /\ yi = 1
    /\ txt_paths = <<>>
    /\ pi = 1
    /\ dfs = <<>>
    /\ full = <<>>
    /\ ti = 0

SpecRace == InitRace /\ [][RaceNext]_vars


\* ------------------------------------------------------- Fetcher claims
\* a step of a running fetch script leaves URL u alone: no HTTP request, no
\* upload, and the stored object keeps its body
FetchLeavesAlone(u) ==
    /\ fReqs'[u] = fReqs[u]
    /\ fUps'[u] = fUps[u]
    /\ zipStore'[blob_path(u)] = zipStore[blob_path(u)]

\* C4 as stated: whichever fetch script runs, a URL whose destination
\* zip/<last path segment> exists is neither requested nor uploaded and its
\* object is left unchanged.
C4_SkipInEveryFetchScript ==
    [][\A u \in UrlIdx :
          (fpc # "idle" /\ BlobPresent(zipStore, blob_path(u))) => FetchLeavesAlone(u)]_vars

\* C4 amended: the skip holds for 01_ingest_zip.py; 01_ingest_data.py has no
\* existence check and requests every URL it reaches, present or not.
C4_SkipInIngestZip ==
    [][/\ \A u \in UrlIdx :
            (fpc # "idle" /\ fScript = "01_ingest_zip"
                /\ BlobPresent(zipStore, blob_path(u))) => FetchLeavesAlone(u)
       /\ (fpc # "idle" /\ fScript = "01_ingest_data" /\ fi' # fi)
            => fReqs[fi] = 1]_vars

\* 01_ingest_zip.py has gone past a URL whose object was present without a
\* request or an upload for it
C4_Witness ==
    /\ fScript = "01_ingest_zip"
    /\ fi > 1
    /\ BlobPresent(zipStore, blob_path(fi - 1))
    /\ fReqs[fi - 1] = 0
    /\ fUps[fi - 1] = 0

\* C5: once the HTTP request of a URL has failed, the run has ended with an
\* error; that URL was requested once and nothing was uploaded for it; no
\* later URL was requested or uploaded; and every object the run wrote for an
\* earlier URL is still stored as written.
C5_FetchFailureIsFatal ==
    fFailed # 0 =>
        /\ fpc = "idle"
        /\ fEnd = "error"
        /\ fReqs[fFailed] = 1
        /\ fUps[fFailed] = 0
        /\ fWritten[fFailed] = Absent
        /\ \A v \in UrlIdx : v > fFailed => (fReqs[v] = 0 /\ fUps[v] = 0)
        /\ \A v \in UrlIdx :
              (v < fFailed /\ fWritten[v] # Absent) => zipStore[blob_path(v)] = fWritten[v]

\* a request failed after the run had stored an object for an earlier URL
C5_Witness ==
    /\ fFailed > 1
    /\ \E v \in UrlIdx : v < fFailed /\ fWritten[v] # Absent


\* ------------------------------------------------------ pipeline claims
ZipIdx == 1..Len(zips)

\* the non-directory entries of archive a, by index
FileEntries(a) == { k \in 1..Len(zips[a].entries) : ~is_dir(zips[a].entries[k]) }

Dest(a, k) == dest_path(zips[a].name, zips[a].entries[k])
ArchiveMarker(a) == marker_path(zip_base(zips[a].name))
YearDir(year) == OUT_PREFIX \o <<"dis-", year, "-dept", "/">>

\* the upload_blob calls and the downloads the step adds to the run's logs
NewUploads == { uploads'[k] : k \in (Len(uploads) + 1)..Len(uploads') }
NewDownloads == downloads' \ downloads

\* the number k of chunks of c rows that n >= 1 rows fill: (k-1)*c < n <= k*c
Chunks(n, c) == CHOOSE k \in 1..n : (k - 1) * c < n /\ n <= k * c

\* the rows of the part files present under parquet_result/dis-<year>-dept/,
\* in part-index order
RECURSIVE PartsFrom(_, _, _)
PartsFrom(year, i, last) ==
    IF i > last THEN <<>>
    ELSE (IF part_blob(out_dir(year), i) \in Paths
          THEN blobs[part_blob(out_dir(year), i)].rows
          ELSE <<>>) \o PartsFrom(year, i + 1, last)

PartRows(year) == PartsFrom(year, 0, Cardinality(Paths))

C1_MarkerImpliesOutputs ==
    /\ \A a \in ZipIdx :
         ArchiveMarker(a) \in Paths => \A k \in FileEntries(a) : Dest(a, k) \in Paths
    /\ \A year \in FourDigits :
         success_marker(year) \in Paths =>
            LET n == blobs[success_marker(year)].rows
            IN  /\ n >= 1
                /\ \A i \in 0..(Chunks(n, CHUNK_ROWS) - 1) :
                      part_blob(out_dir(year), i) \in Paths
                /\ Len(PartRows(year)) = n

C1_MarkedUnitLeftAlone ==
    /\ \A a \in ZipIdx :
         (run = "extract" /\ ArchiveMarker(a) \in Paths) =>
            /\ zips[a].name \notin NewDownloads
            /\ \A u \in NewUploads : ~HasPrefix(u.path, target_root(zips[a].name))
    /\ \A year \in FourDigits :
         (run = "04_build_parquet" /\ success_marker(year) \in Paths) =>
            /\ \A q \in NewDownloads : ~HasPrefix(q, YearDir(year))
            /\ \A u \in NewUploads : ~HasPrefix(u.path, out_dir(year))

\* C1: whatever runs of the Extractor and of the Tabularizer came before,
\* completed or interrupted, an archive whose marker unzip/<base>/_SUCCESS
\* exists has a blob at the destination of each of its non-directory
\* entries, a year whose marker parquet_result/dis-<year>-dept/_SUCCESS
\* exists has every part file of the rows the marker counts, and no step
\* downloads or uploads anything for a unit whose marker exists.
C1_MarkerInvariant ==
    []C1_MarkerImpliesOutputs /\ [][C1_MarkedUnitLeftAlone]_vars

\* both stages have marked a unit, after a run of the Extractor was
\* interrupted, and a later run of the Tabularizer has passed over the year
C1_Witness ==
    /\ run = "04_build_parquet" /\ pc = "idle" /\ runEnd = "ok"
    /\ uploads = <<>> /\ downloads = {}
    /\ \E a \in ZipIdx : ArchiveMarker(a) \in Paths /\ FileEntries(a) # {}
    /\ success_marker("2023") \in Paths
    /\ tmp = "exists"

\* C2: a run of the Extractor that follows a completed run of the Extractor
\* uploads nothing (no entry, no marker) and downloads nothing, the objects
\* under unzip/ are those it found, and every archive has its marker, written
\* once.
C2_SecondRunUploadsNothing ==
    (run = "extract" /\ afterComplete) =>
        /\ uploads = <<>>
        /\ downloads = {}
        /\ list_blobs(blobs, OUT_PREFIX) = startPaths
        /\ \A a \in ZipIdx :
              ArchiveMarker(a) \in Paths /\ blobs[ArchiveMarker(a)].writes = 1

\* the second of two runs in a row has completed
C2_Witness ==
    /\ run = "extract" /\ afterComplete
    /\ pc = "idle" /\ runEnd = "ok"
    /\ zi > Len(zips)
    /\ Len(zips) > 1

\* the entries of archive a the current run has uploaded, by index
UploadedEntries(a) ==
    { uploads[k].what[2] : k \in { k \in 1..Len(uploads) :
                                     uploads[k].what[1] = a /\ uploads[k].what[2] # 0 } }

\* the entries of archive a whose destination had no blob when the run started
MissingAtStart(a) == { k \in FileEntries(a) : Dest(a, k) \notin startPaths }

\* an earlier run stopped in archive a after its first entries were uploaded:
\* the run found the blobs of the first N non-directory entries, N >= 1, and
\* no blob of the others
Resumed(a) ==
    \E k \in FileEntries(a) :
        /\ \E j \in FileEntries(a) : j > k
        /\ \A j \in FileEntries(a) : (Dest(a, j) \in startPaths) <=> (j <= k)

\* the marker of archive a is the last upload of the run for it
MarkerUploadedLast(a) ==
    \A k \in 1..Len(uploads) :
        (uploads[k].what[1] = a /\ uploads[k].what[2] = 0) =>
            \A j \in 1..Len(uploads) : uploads[j].what[1] = a => j <= k

\* a run of the Extractor stopped inside archive zi before the marker upload
InterruptedBeforeMarker ==
    /\ run = "extract" /\ pc = "idle"
    /\ runEnd \in {"crash", "exception"}
    /\ endedAt \in {"x_download", "x_entry", "x_upload", "x_write_marker"}

\* C3 as stated: the run that resumes an archive uploads exactly the entries
\* that had no blob at their destination (entries N+1..M), and then the marker.
C3_ResumeUploadsEveryMissingEntry ==
    (run = "extract" /\ pc = "x_cleanup" /\ Resumed(zi)) =>
        /\ UploadedEntries(zi) = MissingAtStart(zi)
        /\ MarkerUploadedLast(zi)

\* C3 amended: an interrupted run leaves no marker; the run that resumes the
\* archive uploads, for each destination path that had no blob, the first
\* entry that normalises to it and no other entry, and then the marker.
C3_ResumeUploadsMissingPaths ==
    /\ InterruptedBeforeMarker => ArchiveMarker(zi) \notin Paths
    /\ (run = "extract" /\ pc = "x_cleanup") =>
          /\ UploadedEntries(zi) =
                { k \in MissingAtStart(zi) :
                    \A j \in FileEntries(zi) : j < k => Dest(zi, j) # Dest(zi, k) }
          /\ MarkerUploadedLast(zi)
          /\ ArchiveMarker(zi) \in Paths /\ ArchiveMarker(zi) \notin startPaths

\* a run has resumed an archive of which an earlier run had uploaded the
\* first entries, has uploaded the others and has written the marker
C3_Witness ==
    /\ run = "extract" /\ pc = "x_cleanup" /\ Resumed(zi)
    /\ UploadedEntries(zi) # {}
    /\ Cardinality(FileEntries(zi)) >= 3
\* --------------------------------------------------- Tabularizer claims
ParseFails(data) == data.malformed \/ data.lines = <<>>

\* the rows of a table that come from blob p, and the lines they hold
RowsFrom(rows, p) == SelectSeq(rows, LAMBDA r : r._source_blob = p)
LinesOf(rows) == [k \in 1..Len(rows) |-> rows[k].line]

\* the data files of a kind stored under the year directory, sorted by path
DataFiles(word, year) ==
    sorted({ q \in list_blobs(blobs, YearDir(year)) : file_re_match(word, q) })

\* the rows blob q holds when it parses and has at least one data row
RECURSIVE RowsOfFiles(_, _)
RowsOfFiles(paths, year) ==
    IF paths = <<>> THEN <<>>
    ELSE LET q == paths[1]
             d == blobs[q].data
         IN  (IF ParseFails(d) THEN <<>>
              ELSE [k \in 1..(Len(d.lines) - 1) |->
                       [line |-> d.lines[k + 1], _source_blob |-> q, _year |-> year]])
             \o RowsOfFiles(Tail(paths), year)

ExpectedRows(word, year) == RowsOfFiles(DataFiles(word, year), year)

\* every stored row of the year names the blob and the year it came from
Provenance(year) ==
    \A k \in 1..Len(PartRows(year)) :
        LET r == PartRows(year)[k]
        IN  /\ r._year = year
            /\ r._source_blob \in Paths
            /\ HasPrefix(r._source_blob, YearDir(year))
            /\ \E j \in 2..Len(blobs[r._source_blob].data.lines) :
                  blobs[r._source_blob].data.lines[j] = r.line

\* C6: every row of the part files carries the path of its source file and
\* its year, and whenever parquet_result/dis-<year>-dept/_SUCCESS exists the
\* rows of the part files present, in part-index order, are the rows of all
\* DIS_RESULT files of the year that parse and are not empty, in sorted-path
\* then row order.
C6_PartsEqualSourceRows ==
    \A year \in FourDigits :
        /\ Provenance(year)
        /\ success_marker(year) \in Paths =>
              PartRows(year) = ExpectedRows("DIS_RESULT", year)

\* the names part-00000, part-00001, ... as the claim writes them
PartNames ==
    << "00000", "00001", "00002", "00003", "00004", "00005", "00006", "00007",
       "00008", "00009", "00010", "00011", "00012" >>

\* C7: write_parquet_parts on n >= 1 rows with CHUNK_ROWS = c >= 1 uploads
\* exactly ceil(n/c) part files, named part-00000, part-00001, ... in turn;
\* each holds c rows but the last, which holds n - (ceil(n/c)-1)*c; and the
\* parts in index order give back the n rows in their order.
C7_Chunking ==
    (run = "04_build_parquet" /\ pc = "t_marker") =>
        LET n == Len(full)
            c == CHUNK_ROWS
            k == Chunks(n, c)
            dir == out_dir(year_of(year_dirs[yi]))
        IN  /\ Len(uploads) = k
            /\ Cardinality(list_blobs(blobs, dir)) = k
            /\ \A i \in 0..(k - 1) :
                  LET q == dir \o <<"part-", PartNames[i + 1], ".", "parquet">>
                  IN  /\ uploads[i + 1].path = q
                      /\ q \in Paths
                      /\ Len(blobs[q].rows) = IF i < k - 1 THEN c ELSE n - (k - 1) * c
            /\ PartRows(year_of(year_dirs[yi])) = full

\* 5 rows written with CHUNK_ROWS = 2: parts of 2, 2 and 1 rows
C7_Witness ==
    /\ run = "04_build_parquet" /\ pc = "t_marker"
    /\ CHUNK_ROWS = 2 /\ Len(full) = 5
    /\ Len(uploads) = 3
    /\ Len(blobs[uploads[1].path].rows) = 2
    /\ Len(blobs[uploads[2].path].rows) = 2
    /\ Len(blobs[uploads[3].path].rows) = 1

\* the objects under a prefix are the same, with the same content, after the step
Untouched(prefix) ==
    /\ list_blobs(blobs', prefix) = list_blobs(blobs, prefix)
    /\ \A q \in list_blobs(blobs, prefix) : blobs'[q] = blobs[q]

\* C8: while 04_build_parquet runs, a year whose _SUCCESS marker exists gets
\* no upload and its part files and marker stay as they are; while
\* 03_build_parquet runs, a year whose output object exists gets no upload
\* and the object stays as it is.
C8_CompletedYearNotRewritten ==
    [][\A year \in FourDigits :
          /\ (run = "04_build_parquet" /\ pc # "idle" /\ success_marker(year) \in Paths) =>
                /\ \A u \in NewUploads : ~HasPrefix(u.path, out_dir(year))
                /\ Untouched(out_dir(year))
          /\ (run = "03_build_parquet" /\ pc # "idle" /\ out_blob(year) \in Paths) =>
                /\ \A u \in NewUploads : u.path # out_blob(year)
                /\ Untouched(out_blob(year))]_vars

\* 03_build_parquet has run to its end over a year it had completed before,
\* and has read and written nothing
C8_Witness ==
    /\ run = "03_build_parquet" /\ pc = "idle" /\ runEnd = "ok"
    /\ year_dirs # <<>>
    /\ out_blob("2023") \in Paths
    /\ uploads = <<>> /\ downloads = {}

\* the years the current run has completed: it uploaded their completion signal
SignalledYears ==
    { year \in FourDigits :
        \E k \in 1..Len(uploads) : uploads[k].path = done_path(run, year) }

\* the rows stored as the output of the year by the script that is running
OutputRows(year) ==
    IF run = "04_build_parquet" THEN PartRows(year) ELSE blobs[out_blob(year)].rows

\* C9: a matching file that fails to parse gives no row and does not stop
\* the run; every other matching file of the year that parses to at least one
\* row gives all its rows; and a run that ends normally has written, for each
\* year that has such a file, the output holding these rows and its
\* completion signal.
C9_FileFaultTolerance ==
    /\ (run \in TabScripts /\ pc \in {"t_part", "t_marker", "t_single"}) =>
          \A k \in 1..Len(txt_paths) :
              LET p == txt_paths[k]
                  d == blobs[p].data
              IN  /\ ParseFails(d) => RowsFrom(full, p) = <<>>
                  /\ (~ParseFails(d) /\ Len(d.lines) >= 2) =>
                        LinesOf(RowsFrom(full, p)) = Tail(d.lines)
    /\ (run \in TabScripts /\ pc = "idle" /\ runEnd = "ok") =>
          \A year \in FourDigits :
              /\ (YearDir(year) \in { year_dirs[k] : k \in 1..Len(year_dirs) }
                    /\ ExpectedRows(FileWord(run), year) # <<>>)
                    => done_path(run, year) \in Paths
              /\ year \in SignalledYears =>
                    OutputRows(year) = ExpectedRows(FileWord(run), year)

\* a run of 04_build_parquet has ended normally and has written the output
\* and the marker of a year one of whose DIS_RESULT files fails to parse
C9_Witness ==
    /\ run = "04_build_parquet" /\ pc = "idle" /\ runEnd = "ok"
    /\ "2023" \in SignalledYears
    /\ \E k \in 1..Len(DataFiles("DIS_RESULT", "2023")) :
          ParseFails(blobs[DataFiles("DIS_RESULT", "2023")[k]].data)
    /\ PartRows("2023") # <<>>

\* C10: when the Extractor has stopped handling an archive, normally or by an
\* exception raised during extraction or upload, the temporary file of the
\* archive is gone unless os.remove itself failed.
C10_TempFileDeleted ==
    (/\ run = "extract" /\ pc = "idle"
     /\ \/ runEnd = "ok"
        \/ runEnd = "exception" /\ endedAt \in {"x_entry", "x_upload"})
        => tmp \in {"none", "removed", "kept"}

\* ------------------------------------------------ Extractor failure policy
\* the archives for which the current run has uploaded a marker
MarkersUploaded ==
    { uploads[k].what[1] : k \in { k \in 1..Len(uploads) : uploads[k].what[2] = 0 } }

\* a run of the Extractor was ended by an exception raised while archive zi
\* was handled
XFailed ==
    /\ run = "extract" /\ pc = "idle" /\ runEnd = "exception"
    /\ endedAt \in XRaisingPositions

C11_FailedRunWritesNoMarker ==
    /\ XFailed =>
          /\ \A a \in ZipIdx : a >= zi => a \notin MarkersUploaded
          /\ \A a \in ZipIdx :
                (a >= zi /\ ArchiveMarker(a) \notin startPaths) => ArchiveMarker(a) \notin Paths
          /\ \A a \in ZipIdx :
                (a < zi /\ ArchiveMarker(a) \notin startPaths) =>
                    (a \in MarkersUploaded /\ ArchiveMarker(a) \in Paths)
    /\ (run = "extract" /\ pc = "idle" /\ runEnd = "ok") =>
          \A a \in ZipIdx :
              /\ ArchiveMarker(a) \in Paths
              /\ ArchiveMarker(a) \notin startPaths =>
                    (zips[a].name \in downloads /\ a \in MarkersUploaded)

C11_MarkedArchiveNotAffected ==
    \A a \in ZipIdx :
        (run = "extract" /\ ArchiveMarker(a) \in Paths) => Untouched(target_root(zips[a].name))

\* C11: an exception raised while the Extractor handles an archive ends the
\* run with no marker written for that archive or for the archives after it,
\* which therefore have no marker unless an earlier run left one; the
\* archives handled before keep the marker the run wrote; a run that ends
\* normally has downloaded and marked every archive it found without a
\* marker; and no step of the Extractor changes anything under the output
\* prefix of an archive whose marker exists.
C11_FailurePolicy ==
    []C11_FailedRunWritesNoMarker /\ [][C11_MarkedArchiveNotAffected]_vars

\* the run marked the first archive and was ended by an exception in the
\* second one, which has no marker
C11_Witness ==
    /\ XFailed
    /\ endedAt \in {"x_entry", "x_upload"}
    /\ zi = 2
    /\ 1 \in MarkersUploaded
    /\ ArchiveMarker(1) \in Paths
    /\ ArchiveMarker(2) \notin Paths

\* ---------------------------------------------------------- year skipping
\* the directory is of the form unzip/dis-<four digits>-dept/
IsYearDir(dir) == \E year \in FourDigits : dir = YearDir(year)

\* the blobs under a directory whose name matches the data-file pattern of
\* the script
Matching(script, dir) == { q \in list_blobs(blobs, dir) : file_re_match(FileWord(script), q) }

\* blob q gives at least one parsed row
GivesRows(q) == ~ParseFails(blobs[q].data) /\ Len(blobs[q].data.lines) >= 2

\* process_year is about to find that the directory is not a year directory
AtUnexpectedDir == pc = "t_year" /\ ~IsYearDir(year_dirs[yi])

\* ... that the year has no matching file
AtYearWithoutFile == pc = "t_list" /\ Matching(run, year_dirs[yi]) = {}

\* ... that none of the matching files has given a row
AtYearWithoutRows ==
    /\ pc = "t_read" /\ pi = Len(txt_paths)
    /\ \A k \in 1..Len(txt_paths) : ~GivesRows(txt_paths[k])

\* the step is the end of the loop body: the next directory of the sorted
\* list is taken up, or the run ends normally after the last one
GoesOnToNextYear ==
    /\ yi' = yi + 1
    /\ year_dirs' = year_dirs
    /\ IF yi < Len(year_dirs)
       THEN pc' = "t_year" /\ runEnd' = runEnd
       ELSE pc' = "idle" /\ runEnd' = "ok"

C12_SkipStep ==
    (run \in TabScripts /\ (AtUnexpectedDir \/ AtYearWithoutFile \/ AtYearWithoutRows)) =>
        /\ AtUnexpectedDir => runEnd' # "exception"
        /\ runEnd' \notin {"exception", "crash"} =>
              /\ blobs' = blobs
              /\ uploads' = uploads
              /\ GoesOnToNextYear

\* a run that ended normally has uploaded nothing for the directories it skipped
C12_NoOutputForSkipped ==
    (run \in TabScripts /\ pc = "idle" /\ runEnd = "ok") =>
        \A k \in 1..Len(year_dirs) :
            LET dir == year_dirs[k]
            IN  (\/ ~IsYearDir(dir)
                 \/ \A q \in Matching(run, dir) : ~GivesRows(q)) =>
                    \A u \in 1..Len(uploads) : uploads[u].what[1] # k

\* C12: when the Tabularizer meets a directory that does not match the
\* year-directory pattern, a year with no matching data file, or a year none
\* of whose matching files gives a parsed row, it uploads nothing and changes
\* no object, the skip itself raises nothing, and it takes up the next
\* directory of the sorted list (or ends normally after the last one); a run
\* that ended normally has made no upload for such a directory.
C12_YearSkipping ==
    []C12_NoOutputForSkipped /\ [][C12_SkipStep]_vars

\* 04_build_parquet has ended normally after it passed over a directory that
\* is no year directory and a year whose files give no row, and then
\* assembled the year that follows them
C12_Witness ==
    /\ run = "04_build_parquet" /\ pc = "idle" /\ runEnd = "ok"
    /\ Len(year_dirs) = 3
    /\ ~IsYearDir(year_dirs[1])
    /\ Matching(run, year_dirs[1]) # {}
    /\ Matching(run, year_dirs[2]) # {}
    /\ \A q \in Matching(run, year_dirs[2]) : ~GivesRows(q)
    /\ uploads # <<>>
    /\ \A u \in 1..Len(uploads) : uploads[u].what[1] = 3
    /\ success_marker("2024") \in Paths
    /\ success_marker("2023") \notin Paths

\* ------------------------------------------------------ delimiter detection
\* the candidate delimiters in the order of the claim: ; , tab |
Delimiters == << 59, 44, 9, 124 >>

\* number of occurrences of character c in the sample
Occurrences(c) == Cardinality({ k \in 1..Len(head) : head[k] = c })

\* C13: the delimiter detect_sep returns for the sample is one of ; , tab |
\* that no candidate occurs more often than, it is ; when none of the four
\* occurs, and every candidate that comes before it in the order ; , tab |
\* occurs strictly less often (a tie goes to the first).
C13_DetectSep ==
    rpc = "parse" =>
        /\ \E i \in 1..4 :
              /\ sep = << Delimiters[i] >>
              /\ \A j \in 1..4 : Occurrences(Delimiters[j]) <= Occurrences(Delimiters[i])
              /\ \A j \in 1..(i - 1) : Occurrences(Delimiters[j]) < Occurrences(Delimiters[i])
        /\ (\A j \in 1..4 : Occurrences(Delimiters[j]) = 0) => sep = << 59 >>

\* "," and "|" occur twice each and ";" once: "," is returned
C13_Witness ==
    /\ rpc = "parse"
    /\ Occurrences(44) = 2 /\ Occurrences(124) = 2 /\ Occurrences(59) = 1
    /\ sep = << 44 >>

\* -------------------------------------------------------- encoding fallback
\* the well-formed UTF-8 byte sequences (Unicode standard, table 3-7): for
\* each byte of a sequence, the range it lies in
WellFormedUtf8 ==
    { << <<0, 127>> >>,
      << <<194, 223>>, <<128, 191>> >>,
      << <<224, 224>>, <<160, 191>>, <<128, 191>> >>,
      << <<225, 236>>, <<128, 191>>, <<128, 191>> >>,
      << <<237, 237>>, <<128, 159>>, <<128, 191>> >>,
      << <<238, 239>>, <<128, 191>>, <<128, 191>> >>,
      << <<240, 240>>, <<144, 191>>, <<128, 191>>, <<128, 191>> >>,
      << <<241, 243>>, <<128, 191>>, <<128, 191>>, <<128, 191>> >>,
      << <<244, 244>>, <<128, 143>>, <<128, 191>>, <<128, 191>> >> }

IsUtf8Sequence(seg) ==
    \E row \in WellFormedUtf8 :
        /\ Len(row) = Len(seg)
        /\ \A k \in 1..Len(seg) : row[k][1] <= seg[k] /\ seg[k] <= row[k][2]

\* the bytes can be cut into well-formed sequences
ValidUtf8(b) ==
    \E cuts \in SUBSET (0..Len(b)) :
        /\ 0 \in cuts /\ Len(b) \in cuts
        /\ \A i \in cuts : i < Len(b) =>
              \E j \in cuts :
                  /\ j > i
                  /\ \A m \in cuts : m > i => m >= j
                  /\ IsUtf8Sequence(SubSeq(b, i + 1, j))

\* the UTF-8 encoding of a text
RECURSIVE Utf8Encode(_)
Utf8Encode(t) ==
    IF t = <<>> THEN <<>>
    ELSE (IF t[1] < 128 THEN << t[1] >>
          ELSE IF t[1] < 2048 THEN << 192 + (t[1] \div 64), 128 + (t[1] % 64) >>
          ELSE IF t[1] < 65536
               THEN << 224 + (t[1] \div 4096), 128 + ((t[1] \div 64) % 64), 128 + (t[1] % 64) >>
          ELSE << 240 + (t[1] \div 262144), 128 + ((t[1] \div 4096) % 64),
                  128 + ((t[1] \div 64) % 64), 128 + (t[1] % 64) >>)
         \o Utf8Encode(Tail(t))

\* C14: the decodings are tried in the order UTF-8, UTF-8 with signature,
\* Latin-1, each only after the ones before it have failed; bytes that are
\* valid UTF-8 are decoded by UTF-8 (the text encodes back to the bytes);
\* bytes that are not are decoded by Latin-1 (each byte is its code point);
\* and the function never gives up with None for want of an encoding.
C14_EncodingFallback ==
    /\ rpc # "none"
    /\ rpc = "decode" =>
          /\ enc \in 1..3
          /\ \A k \in 1..(enc - 1) : ~decode(raw, <<"utf-8", "utf-8-sig", "latin-1">>[k]).ok
          /\ enc > 1 => ~ValidUtf8(raw)
    /\ rpc \in {"sniff", "parse"} =>
          /\ ValidUtf8(raw) => (ENCODINGS[enc] = "utf-8" /\ Utf8Encode(text) = raw)
          /\ ~ValidUtf8(raw) => (ENCODINGS[enc] = "latin-1" /\ text = raw)

\* a signature followed by a byte that is no UTF-8: UTF-8 and UTF-8 with
\* signature have failed, Latin-1 has decoded the four bytes
C14_Witness ==
    /\ rpc = "sniff"
    /\ enc = 3
    /\ Len(raw) = 4
    /\ SubSeq(raw, 1, 3) = << 239, 187, 191 >>
    /\ text = raw

\* ---------------------------------------------------------- two runs at once
\* the upload_blob calls of process p to a path, as the set of their outcomes
Outcomes(p, path) == { t.ok : t \in { t \in proc[p].tried : t.path = path } }

\* the existence checks that let both processes go on
PassedByBoth == proc[1].passed \cap proc[2].passed

\* C15: when two runs of one script execute at once, nothing but the
\* existence check keeps a run from a unit: a process that passed the check
\* of a unit and ran to its end has uploaded to the destination the check
\* was about, and when both processes passed the same marker check and ran
\* to their end, both have uploaded the marker, which has been written twice.
C15_BothRunsProcessTheUnit ==
    raceStage # "none" =>
        /\ \A p \in Procs : \A m \in proc[p].passed :
              proc[p].pc = "done" => TRUE \in Outcomes(p, m)
        /\ \A m \in PassedByBoth :
              (raceStage # "01_ingest_zip" /\ \A p \in Procs : proc[p].pc = "done") =>
                  /\ \A p \in Procs : Outcomes(p, m) = {TRUE}
                  /\ blobs[m].writes = 2

\* both runs of 01_ingest_zip.py found zip/<file> absent, both downloaded the
\* archive and both called upload_blob for it
C15_Witness ==
    /\ raceStage = "01_ingest_zip"
    /\ \E m \in PassedByBoth :
          /\ Outcomes(1, m) # {}
          /\ Outcomes(2, m) # {}

\* ------------------------------------------- output of 03_build_parquet.py
\* parquet_plv/<archive-base>.parquet for the year directory unzip/<archive-base>/
ArchiveBaseOutput(year_dir) ==
    <<"parquet_plv", "/">> \o split(year_dir, "/")[2] \o <<".", "parquet">>

\* C16: every object 03_build_parquet.py uploads for a year directory
\* unzip/<archive-base>/ is written at parquet_plv/<archive-base>.parquet,
\* and the year is passed over exactly when an object exists at that path.
C16_OutputAtArchiveBase ==
    run = "03_build_parquet" =>
        /\ \A u \in 1..Len(uploads) :
              uploads[u].path = ArchiveBaseOutput(year_dirs[uploads[u].what[1]])
        /\ (pc = "t_list" /\ IsYearDir(year_dirs[yi])) =>
              ArchiveBaseOutput(year_dirs[yi]) \notin Paths

\* -------------------------------------------------------- existence probe
\* the step ends the run with nothing stored and nothing uploaded
EndsRunUntouched ==
    /\ pc' = "idle"
    /\ runEnd' \in {"exception", "crash"}
    /\ blobs' = blobs
    /\ uploads' = uploads

\* the probe of the marker of archive zi, of the destination of entry ei and
\* of the completion signal of year directory yi: the step passes over the
\* unit when the blob exists, goes on with it when the blob does not, or
\* ends the run
C17_ProbeStep ==
    /\ (run = "extract" /\ pc = "x_marker") =>
          \/ EndsRunUntouched
          \/ /\ ArchiveMarker(zi) \in Paths
             /\ zi' = zi + 1 /\ blobs' = blobs /\ uploads' = uploads /\ downloads' = downloads
          \/ /\ ArchiveMarker(zi) \notin Paths
             /\ pc' = "x_download" /\ zi' = zi /\ blobs' = blobs
    /\ (run = "extract" /\ pc = "x_entry" /\ ei \in FileEntries(zi)) =>
          \/ EndsRunUntouched
          \/ /\ Dest(zi, ei) \in Paths
             /\ pc' = "x_entry" /\ ei' = ei + 1 /\ blobs' = blobs /\ uploads' = uploads
          \/ /\ Dest(zi, ei) \notin Paths
             /\ pc' = "x_upload" /\ ei' = ei /\ blobs' = blobs
    /\ (run \in TabScripts /\ pc = "t_year" /\ IsYearDir(year_dirs[yi])) =>
          \/ EndsRunUntouched
          \/ /\ done_path(run, year_of(year_dirs[yi])) \in Paths
             /\ yi' = yi + 1 /\ blobs' = blobs /\ uploads' = uploads /\ downloads' = downloads
          \/ /\ done_path(run, year_of(year_dirs[yi])) \notin Paths
             /\ pc' = "t_list" /\ yi' = yi /\ blobs' = blobs

\* what a run that a failing probe ended has not done
C17_AfterFailedProbe ==
    /\ (XFailed /\ endedAt = "x_marker") =>
          \A u \in 1..Len(uploads) : uploads[u].what[1] # zi
    /\ (XFailed /\ endedAt = "x_entry") =>
          \A u \in 1..Len(uploads) :
              uploads[u].what[1] = zi => uploads[u].what[2] \in 1..(ei - 1)
    /\ (run \in TabScripts /\ pc = "idle" /\ runEnd = "exception" /\ endedAt = "t_year") =>
          \A u \in 1..Len(uploads) : uploads[u].what[1] # yi

\* C17: the existence probe answers "present" when the blob exists and
\* "absent" when it does not; a probe that fails otherwise is not turned into
\* either answer but ends the run, which has then uploaded nothing for the
\* archive or the year whose marker was probed, and neither the entry whose
\* destination was probed, nor any later entry, nor the marker of its archive.
C17_ExistenceProbe ==
    []C17_AfterFailedProbe /\ [][C17_ProbeStep]_vars

\* the probe of an entry's destination failed after the run had uploaded
\* earlier entries: the destination is still absent, the archive has no marker
C17_Witness ==
    /\ XFailed /\ endedAt = "x_entry"
    /\ ei \in FileEntries(zi)
    /\ ei > 1
    /\ Dest(zi, ei) \notin Paths
    /\ uploads # <<>>
    /\ ArchiveMarker(zi) \notin Paths

\* --------------------------------------------------------- create-only uploads
\* the destinations the script uploads to with overwrite=False: the fetched
\* archives, the extracted entries
CreateOnlyPaths ==
    IF raceStage = "01_ingest_zip" THEN FetchPaths
    ELSE IF raceStage = "02_ingest_data"
         THEN UNION { { Dest(a, k) : k \in FileEntries(a) } : a \in ZipIdx }
    ELSE {}

\* a fetched archive or an extracted entry that is stored stays as it is
StoredObjectKept ==
    /\ \A q \in FetchPaths : zipStore[q] # Absent => zipStore'[q] = zipStore[q]
    /\ \A q \in Paths :
          blobs[q].kind = "file" => (q \in DOMAIN blobs' /\ blobs'[q] = blobs[q])

C18_OneWriteSucceeds ==
    raceStage # "none" =>
        /\ \A q \in CreateOnlyPaths :
              /\ ~(TRUE \in Outcomes(1, q) /\ TRUE \in Outcomes(2, q))
              /\ \A p \in Procs :
                    FALSE \in Outcomes(p, q) =>
                        /\ proc[p].pc = "error"
                        /\ Outcomes(p, q) = {FALSE}
                        /\ \E o \in Procs \ {p} : Outcomes(o, q) = {TRUE}
        /\ \A p \in Procs : \A t \in proc[p].tried :
              t.path \notin CreateOnlyPaths => t.ok

\* C18 as stated: a fetched archive or an extracted entry that is stored is
\* never replaced, whichever script runs, since only markers and Tabularizer
\* outputs are uploaded with overwrite enabled.
C18_NothingStoredIsReplaced ==
    [][StoredObjectKept]_vars

\* C18 amended: in sequential and in interleaved runs of 01_ingest_zip.py and
\* of 02_ingest_data.py (and of 04_build_parquet.py), a fetched archive or an
\* extracted entry that is stored is never replaced; of two runs that call
\* upload_blob for the same such destination one succeeds and the other is
\* stopped by the error; the uploads made with overwrite=True, which are
\* those of markers, of Tabularizer outputs and of the archives written by
\* 01_ingest_data.py, succeed whatever is stored.
C18_CreateOnlyUploads ==
    []C18_OneWriteSucceeds /\ [][raceStage # "01_ingest_data" => StoredObjectKept]_vars

\* two runs of the Extractor both found the destination of an entry absent
\* and both called upload_blob: one stored the entry, the other was stopped
C18_Witness ==
    /\ raceStage = "02_ingest_data"
    /\ \E q \in CreateOnlyPaths :
          /\ Outcomes(1, q) = {FALSE}
          /\ Outcomes(2, q) = {TRUE}
          /\ proc[1].pc = "error"
          /\ q \in Paths /\ blobs[q].kind = "file"

\* ------------------------------------------------------- files_extracted
\* the value the marker of archive a records
FilesExtracted(a) == blobs[ArchiveMarker(a)].files_extracted

\* C19 as stated: the marker a run has just written records the number of
\* entries it uploaded, which is the number of entries whose destination had
\* no blob when the run started.
C19_CountIsEntriesMissingAtStart ==
    (run = "extract" /\ pc = "x_cleanup") =>
        /\ FilesExtracted(zi) = Cardinality(UploadedEntries(zi))
        /\ FilesExtracted(zi) = Cardinality(MissingAtStart(zi))

\* C19 amended: the marker a run has just written records the number of
\* entries that run uploaded; entries passed over are not counted; the number
\* is that of the distinct destination paths that had no blob when the run
\* started, which is at most the number of entries that were missing.
C19_CountIsEntriesUploaded ==
    (run = "extract" /\ pc = "x_cleanup") =>
        /\ FilesExtracted(zi) = Cardinality(UploadedEntries(zi))
        /\ FilesExtracted(zi) = Cardinality({ Dest(zi, k) : k \in MissingAtStart(zi) })
        /\ FilesExtracted(zi) <= Cardinality(MissingAtStart(zi))

\* a resumed run has written the marker: it records the entries that were
\* missing, fewer than the archive holds
C19_Witness ==
    /\ run = "extract" /\ pc = "x_cleanup" /\ Resumed(zi)
    /\ FilesExtracted(zi) = Cardinality(MissingAtStart(zi))
    /\ FilesExtracted(zi) >= 1
    /\ FilesExtracted(zi) < Cardinality(FileEntries(zi))

====
